---- MODULE Spec2Model ----
(***************************************************************************)
(* ShieldSight prediction orchestration core: the domain risk analyzer,   *)
(* the TTL caches, the predict_single_url pipeline, the deferred           *)
(* explanation task and the explanation fetch endpoint.                    *)
(*                                                                         *)
(* Text is a sequence of one-character strings.  Probabilities and         *)
(* confidences are integers in units of 1/ONE.  Time is in seconds.        *)
(***************************************************************************)
EXTENDS Integers, Sequences, FiniteSets, TLC

\* ------------------------------------------------------------------------
\* Text helpers (Python str operations used by the source)
\* ------------------------------------------------------------------------

\* str.lower() on one character
LowerChar(c) ==
  CASE c = "A" -> "a" [] c = "B" -> "b" [] c = "C" -> "c" [] c = "D" -> "d"
    [] c = "E" -> "e" [] c = "F" -> "f" [] c = "G" -> "g" [] c = "H" -> "h"
    [] c = "I" -> "i" [] c = "J" -> "j" [] c = "K" -> "k" [] c = "L" -> "l"
    [] c = "M" -> "m" [] c = "N" -> "n" [] c = "O" -> "o" [] c = "P" -> "p"
    [] c = "Q" -> "q" [] c = "R" -> "r" [] c = "S" -> "s" [] c = "T" -> "t"
    [] c = "U" -> "u" [] c = "V" -> "v" [] c = "W" -> "w" [] c = "X" -> "x"
    [] c = "Y" -> "y" [] c = "Z" -> "z" [] OTHER -> c

\* str.lower()
Lower(s) == [i \in 1..Len(s) |-> LowerChar(s[i])]

\* s[a-1:b] of Python, 1-based inclusive bounds
Slice(s, a, b) == IF a > b THEN << >> ELSE SubSeq(s, a, b)

\* str.startswith(p)
StartsWith(s, p) == Len(p) <= Len(s) /\ SubSeq(s, 1, Len(p)) = p

\* str.endswith(p)
EndsWith(s, p) ==
  Len(p) <= Len(s) /\ SubSeq(s, Len(s) - Len(p) + 1, Len(s)) = p

\* positions at which sub occurs in s
Occurrences(s, sub) ==
  {i \in 1..(Len(s) - Len(sub) + 1) : SubSeq(s, i, i + Len(sub) - 1) = sub}

\* `sub in s` of Python
Contains(s, sub) == Occurrences(s, sub) # {}

\* positions of character c in s
Positions(s, c) == {i \in 1..Len(s) : s[i] = c}

\* s.split(c)[0]
BeforeFirst(s, c) ==
  IF Positions(s, c) = {} THEN s
  ELSE LET i == CHOOSE k \in Positions(s, c) : \A m \in Positions(s, c) : k <= m
       IN  Slice(s, 1, i - 1)

\* \w of the re module, on the lower-cased ASCII hosts the analyzer sees
IsWordChar(c) ==
  c \in {"a","b","c","d","e","f","g","h","i","j","k","l","m","n","o","p","q",
         "r","s","t","u","v","w","x","y","z","0","1","2","3","4","5","6","7",
         "8","9","_"}

\* re.search(rf'\b{re.escape(keyword)}\b', s): keyword occurs as a whole word
WholeWordMatch(s, keyword) ==
  \E i \in Occurrences(s, keyword) :
     /\ (i = 1 \/ ~IsWordChar(s[i - 1]))
     /\ (i + Len(keyword) - 1 = Len(s) \/ ~IsWordChar(s[i + Len(keyword)]))

Min2(a, b) == IF a <= b THEN a ELSE b
Max2(a, b) == IF a >= b THEN a ELSE b
Abs(a) == IF a >= 0 THEN a ELSE 0 - a

\* ------------------------------------------------------------------------
\* levenshtein_distance
\* ------------------------------------------------------------------------

\* one pass of the inner loop: extends current_row for the characters j..Len(s2)
RECURSIVE LevRow(_, _, _, _, _)
LevRow(c1, s2, previous_row, current_row, j) ==
  IF j > Len(s2) THEN current_row
  ELSE LET insertions    == previous_row[j + 1] + 1
           deletions     == current_row[j] + 1
           substitutions == previous_row[j] + (IF c1 # s2[j] THEN 1 ELSE 0)
           cell          == Min2(insertions, Min2(deletions, substitutions))
       IN  IF cell >= 0
           THEN LevRow(c1, s2, previous_row, Append(current_row, cell), j + 1)
           ELSE current_row

\* the outer loop over the characters i..Len(s1) of s1
RECURSIVE LevRows(_, _, _, _)
LevRows(s1, s2, previous_row, i) ==
  IF i > Len(s1) THEN previous_row
  ELSE LET current_row == LevRow(s1[i], s2, previous_row, << i >>, 1)
       IN  IF Len(current_row) > 0
           THEN LevRows(s1, s2, current_row, i + 1)
           ELSE previous_row

RECURSIVE levenshtein_distance(_, _)
levenshtein_distance(s1, s2) ==
  IF Len(s1) < Len(s2) THEN levenshtein_distance(s2, s1)
  ELSE IF Len(s2) = 0 THEN Len(s1)
  ELSE LET last == LevRows(s1, s2, [k \in 1..(Len(s2) + 1) |-> k - 1], 1)
       IN  last[Len(last)]

\* ------------------------------------------------------------------------
\* Smart whitelist tables
\* ------------------------------------------------------------------------

HIGH_TRUST_DOMAINS ==
  {
    <<"g","o","o","g","l","e",".","c","o","m">>, <<"g","o","o","g","l","e",".","c","o",".","i","n">>,
    <<"g","o","o","g","l","e",".","c","o",".","j","p">>, <<"g","o","o","g","l","e",".","c","o",".","u","k">>,
    <<"g","o","o","g","l","e",".","d","e">>, <<"g","o","o","g","l","e",".","f","r">>,
    <<"g","o","o","g","l","e",".","c","o","m",".","b","r">>, <<"g","o","o","g","l","e",".","i","t">>,
    <<"g","o","o","g","l","e",".","e","s">>, <<"g","o","o","g","l","e",".","c","a">>,
    <<"g","o","o","g","l","e",".","c","o","m",".","a","u">>, <<"g","o","o","g","l","e",".","r","u">>,
    <<"g","o","o","g","l","e",".","p","l">>, <<"g","o","o","g","l","e",".","n","l">>,
    <<"g","o","o","g","l","e",".","c","o",".","i","d">>, <<"b","i","n","g",".","c","o","m">>,
    <<"y","a","h","o","o",".","c","o","m">>, <<"d","u","c","k","d","u","c","k","g","o",".","c","o","m">>,
    <<"b","a","i","d","u",".","c","o","m">>, <<"y","a","n","d","e","x",".","r","u">>,
    <<"f","a","c","e","b","o","o","k",".","c","o","m">>, <<"t","w","i","t","t","e","r",".","c","o","m">>,
    <<"i","n","s","t","a","g","r","a","m",".","c","o","m">>, <<"l","i","n","k","e","d","i","n",".","c","o","m">>,
    <<"r","e","d","d","i","t",".","c","o","m">>, <<"p","i","n","t","e","r","e","s","t",".","c","o","m">>,
    <<"t","u","m","b","l","r",".","c","o","m">>, <<"s","n","a","p","c","h","a","t",".","c","o","m">>,
    <<"t","i","k","t","o","k",".","c","o","m">>, <<"v","k",".","c","o","m">>,
    <<"w","e","i","b","o",".","c","o","m">>, <<"w","h","a","t","s","a","p","p",".","c","o","m">>,
    <<"a","m","a","z","o","n",".","c","o","m">>, <<"a","m","a","z","o","n",".","c","o",".","u","k">>,
    <<"a","m","a","z","o","n",".","d","e">>, <<"a","m","a","z","o","n",".","f","r">>,
    <<"a","m","a","z","o","n",".","c","o",".","j","p">>, <<"e","b","a","y",".","c","o","m">>,
    <<"a","l","i","b","a","b","a",".","c","o","m">>, <<"t","a","o","b","a","o",".","c","o","m">>,
    <<"t","m","a","l","l",".","c","o","m">>, <<"a","l","i","e","x","p","r","e","s","s",".","c","o","m">>,
    <<"w","a","l","m","a","r","t",".","c","o","m">>, <<"t","a","r","g","e","t",".","c","o","m">>,
    <<"b","e","s","t","b","u","y",".","c","o","m">>, <<"e","t","s","y",".","c","o","m">>,
    <<"s","h","o","p","i","f","y",".","c","o","m">>, <<"m","i","c","r","o","s","o","f","t",".","c","o","m">>,
    <<"l","i","v","e",".","c","o","m">>, <<"o","u","t","l","o","o","k",".","c","o","m">>,
    <<"o","f","f","i","c","e",".","c","o","m">>, <<"m","s","n",".","c","o","m">>,
    <<"w","i","n","d","o","w","s",".","c","o","m">>, <<"x","b","o","x",".","c","o","m">>,
    <<"s","k","y","p","e",".","c","o","m">>, <<"y","o","u","t","u","b","e",".","c","o","m">>,
    <<"n","e","t","f","l","i","x",".","c","o","m">>, <<"t","w","i","t","c","h",".","t","v">>,
    <<"s","p","o","t","i","f","y",".","c","o","m">>, <<"s","o","u","n","d","c","l","o","u","d",".","c","o","m">>,
    <<"i","m","d","b",".","c","o","m">>, <<"c","n","n",".","c","o","m">>,
    <<"b","b","c",".","c","o","m">>, <<"n","y","t","i","m","e","s",".","c","o","m">>,
    <<"t","h","e","g","u","a","r","d","i","a","n",".","c","o","m">>, <<"f","o","r","b","e","s",".","c","o","m">>,
    <<"b","l","o","o","m","b","e","r","g",".","c","o","m">>, <<"r","e","u","t","e","r","s",".","c","o","m">>,
    <<"e","s","p","n",".","c","o","m">>, <<"q","q",".","c","o","m">>,
    <<"s","o","h","u",".","c","o","m">>, <<"s","i","n","a",".","c","o","m",".","c","n">>,
    <<"1","6","3",".","c","o","m">>, <<"3","6","0",".","c","n">>,
    <<"j","d",".","c","o","m">>, <<"b","i","l","i","b","i","l","i",".","c","o","m">>,
    <<"z","h","i","h","u",".","c","o","m">>, <<"d","o","u","b","a","n",".","c","o","m">>,
    <<"c","l","o","u","d","f","l","a","r","e",".","c","o","m">>, <<"a","m","a","z","o","n","a","w","s",".","c","o","m">>,
    <<"g","o","o","g","l","e","u","s","e","r","c","o","n","t","e","n","t",".","c","o","m">>, <<"c","l","o","u","d","f","r","o","n","t",".","n","e","t">>,
    <<"a","k","a","m","a","i",".","n","e","t">>, <<"f","a","s","t","l","y",".","n","e","t">>,
    <<"c","d","n",".","j","s","d","e","l","i","v","r",".","n","e","t">>, <<"p","a","y","p","a","l",".","c","o","m">>,
    <<"c","h","a","s","e",".","c","o","m">>, <<"b","a","n","k","o","f","a","m","e","r","i","c","a",".","c","o","m">>,
    <<"w","e","l","l","s","f","a","r","g","o",".","c","o","m">>, <<"c","i","t","i","b","a","n","k",".","c","o","m">>,
    <<"h","s","b","c",".","c","o","m">>, <<"v","i","s","a",".","c","o","m">>,
    <<"m","a","s","t","e","r","c","a","r","d",".","c","o","m">>, <<"w","i","k","i","p","e","d","i","a",".","o","r","g">>,
    <<"w","i","k","i","m","e","d","i","a",".","o","r","g">>, <<"s","t","a","c","k","o","v","e","r","f","l","o","w",".","c","o","m">>,
    <<"g","i","t","h","u","b",".","c","o","m">>, <<"g","i","t","l","a","b",".","c","o","m">>,
    <<"b","i","t","b","u","c","k","e","t",".","o","r","g">>, <<"m","e","d","i","u","m",".","c","o","m">>,
    <<"w","o","r","d","p","r","e","s","s",".","c","o","m">>, <<"l","e","e","t","c","o","d","e",".","c","o","m">>,
    <<"h","a","c","k","e","r","r","a","n","k",".","c","o","m">>, <<"g","e","e","k","s","f","o","r","g","e","e","k","s",".","o","r","g">>,
    <<"g","o","v">>, <<"g","o","v",".","u","k">>,
    <<"g","o","v",".","i","n">>, <<"g","o","v",".","a","u">>,
    <<"g","o","v",".","c","a">>, <<"e","u","r","o","p","a",".","e","u">>,
    <<"u","n",".","o","r","g">>, <<"w","h","o",".","i","n","t">>,
    <<"u","n","e","s","c","o",".","o","r","g">>, <<"d","r","o","p","b","o","x",".","c","o","m">>,
    <<"z","o","o","m",".","u","s">>, <<"s","l","a","c","k",".","c","o","m">>,
    <<"d","i","s","c","o","r","d",".","c","o","m">>, <<"t","e","l","e","g","r","a","m",".","o","r","g">>,
    <<"a","p","p","l","e",".","c","o","m">>, <<"i","c","l","o","u","d",".","c","o","m">>,
    <<"a","d","o","b","e",".","c","o","m">>, <<"s","a","l","e","s","f","o","r","c","e",".","c","o","m">>,
    <<"c","a","n","v","a",".","c","o","m">>, <<"n","o","t","i","o","n",".","s","o">>,
    <<"t","r","e","l","l","o",".","c","o","m">>, <<"a","s","a","n","a",".","c","o","m">>,
    <<"b","o","o","k","i","n","g",".","c","o","m">>, <<"a","i","r","b","n","b",".","c","o","m">>,
    <<"e","x","p","e","d","i","a",".","c","o","m">>, <<"t","r","i","p","a","d","v","i","s","o","r",".","c","o","m">>,
    <<"m","a","p","s",".","g","o","o","g","l","e",".","c","o","m">>, <<"m","a","p","s",".","a","p","p","l","e",".","c","o","m">>,
    <<"w","a","z","e",".","c","o","m">>, <<"a","r","c","h","i","v","e",".","o","r","g">>,
    <<"c","r","a","i","g","s","l","i","s","t",".","o","r","g">>, <<"f","l","i","c","k","r",".","c","o","m">>,
    <<"v","i","m","e","o",".","c","o","m">>, <<"d","a","i","l","y","m","o","t","i","o","n",".","c","o","m">>,
    <<"b","l","o","g","g","e","r",".","c","o","m">>, <<"w","o","r","d","p","r","e","s","s",".","o","r","g">>
  }

PHISHING_KEYWORDS ==
  {
    <<"l","o","g","i","n">>, <<"v","e","r","i","f","y">>,
    <<"s","e","c","u","r","e">>, <<"a","c","c","o","u","n","t">>,
    <<"u","p","d","a","t","e">>, <<"c","o","n","f","i","r","m">>,
    <<"b","a","n","k","i","n","g">>, <<"p","a","y","m","e","n","t">>,
    <<"w","a","l","l","e","t">>, <<"c","r","e","d","e","n","t","i","a","l">>,
    <<"p","a","s","s","w","o","r","d">>
  }

BRAND_PATTERNS ==
  <<
    [brand |-> <<"g","o","o","g","l","e">>,
     allowed_domains |-> {<<"g","o","o","g","l","e",".","c","o","m">>, <<"g","o","o","g","l","e",".","c","o">>, <<"a","c","c","o","u","n","t","s",".","g","o","o","g","l","e",".","c","o","m">>, <<"d","r","i","v","e",".","g","o","o","g","l","e",".","c","o","m">>, <<"d","o","c","s",".","g","o","o","g","l","e",".","c","o","m">>}],
    [brand |-> <<"p","a","y","p","a","l">>,
     allowed_domains |-> {<<"p","a","y","p","a","l",".","c","o","m">>, <<"p","a","y","p","a","l",".","m","e">>, <<"p","a","y","p","a","l",".","c","o">>}],
    [brand |-> <<"a","m","a","z","o","n">>,
     allowed_domains |-> {<<"a","m","a","z","o","n",".","c","o","m">>, <<"a","m","a","z","o","n",".","c","o">>, <<"a","w","s",".","a","m","a","z","o","n",".","c","o","m">>}],
    [brand |-> <<"f","a","c","e","b","o","o","k">>,
     allowed_domains |-> {<<"f","a","c","e","b","o","o","k",".","c","o","m">>, <<"f","b",".","c","o","m">>, <<"m","e","s","s","e","n","g","e","r",".","c","o","m">>}],
    [brand |-> <<"i","n","s","t","a","g","r","a","m">>,
     allowed_domains |-> {<<"i","n","s","t","a","g","r","a","m",".","c","o","m">>}],
    [brand |-> <<"m","i","c","r","o","s","o","f","t">>,
     allowed_domains |-> {<<"m","i","c","r","o","s","o","f","t",".","c","o","m">>, <<"o","f","f","i","c","e",".","c","o","m">>, <<"l","i","v","e",".","c","o","m">>, <<"o","u","t","l","o","o","k",".","c","o","m">>, <<"a","z","u","r","e",".","c","o","m">>}],
    [brand |-> <<"a","p","p","l","e">>,
     allowed_domains |-> {<<"a","p","p","l","e",".","c","o","m">>, <<"i","c","l","o","u","d",".","c","o","m">>}],
    [brand |-> <<"n","e","t","f","l","i","x">>,
     allowed_domains |-> {<<"n","e","t","f","l","i","x",".","c","o","m">>}],
    [brand |-> <<"l","i","n","k","e","d","i","n">>,
     allowed_domains |-> {<<"l","i","n","k","e","d","i","n",".","c","o","m">>}],
    [brand |-> <<"c","h","a","s","e">>,
     allowed_domains |-> {<<"c","h","a","s","e",".","c","o","m">>}],
    [brand |-> <<"w","e","l","l","s","f","a","r","g","o">>,
     allowed_domains |-> {<<"w","e","l","l","s","f","a","r","g","o",".","c","o","m">>}]
  >>

\* the trusted TLD list of analyze_domain_risk, in its order
TRUSTED_TLDS ==
  << <<".","g","o","v">>, <<".","e","d","u">>, <<".","m","i","l">> >>

\* ------------------------------------------------------------------------
\* urllib.parse.urlparse, for the URL shapes the service receives
\* ------------------------------------------------------------------------

HTTP_PREFIX  == <<"h","t","t","p",":","/","/">>
HTTPS_PREFIX == <<"h","t","t","p","s",":","/","/">>

\* first position in s (from position a on) holding one of the characters cs,
\* or Len(s) + 1
FirstOf(s, a, cs) ==
  LET hits == {i \in a..Len(s) : s[i] \in cs}
  IN  IF hits = {} THEN Len(s) + 1
      ELSE CHOOSE k \in hits : \A m \in hits : k <= m

\* urlparse(url): scheme, netloc and path; error stands for the ValueError
\* raised on an unbalanced IPv6 bracket in the netloc
urlparse(url) ==
  LET pre == IF StartsWith(Lower(url), HTTPS_PREFIX) THEN HTTPS_PREFIX
             ELSE IF StartsWith(Lower(url), HTTP_PREFIX) THEN HTTP_PREFIX
             ELSE << >>
  IN  IF pre = << >>
      THEN [scheme |-> << >>, netloc |-> << >>, path |-> url, error |-> FALSE]
      ELSE LET from == Len(pre) + 1
               stop == FirstOf(url, from, {"/", "?", "#"})
               nl   == Slice(url, from, stop - 1)
           IN  [scheme |-> Slice(pre, 1, Len(pre) - 3),
                netloc |-> nl,
                path   |-> Slice(url, stop, Len(url)),
                error  |-> (Contains(nl, <<"[">>) # Contains(nl, <<"]">>))]

\* ------------------------------------------------------------------------
\* analyze_domain_risk
\* ------------------------------------------------------------------------

\* a verdict (is_whitelisted, domain_reason, domain_boost); the reason is the
\* fixed text of the f-string (kind) and its interpolated part (arg); the
\* boost is in tenths
Verdict(w, kind, arg, boost) ==
  [is_whitelisted |-> w, kind |-> kind, arg |-> arg, boost |-> boost]

\* the host the rules decide on
NormalizedNetloc(url) ==
  LET parsed == urlparse(Lower(url))
      n0 == IF parsed.netloc # << >> THEN parsed.netloc ELSE parsed.path
      n1 == IF StartsWith(n0, <<"w","w","w",".">>) THEN Slice(n0, 5, Len(n0))
            ELSE n0
  IN  IF Contains(n1, <<"/">>) THEN BeforeFirst(n1, "/") ELSE n1

\* the trusted TLDs that netloc ends with
TrustedTldsOf(netloc) ==
  {i \in 1..Len(TRUSTED_TLDS) : EndsWith(netloc, TRUSTED_TLDS[i])}

\* '.'.join(parts[i:]) for i in 1..len(parts)-1, as the dot positions they
\* start after
ParentDots(netloc) ==
  {d \in Positions(netloc, ".") :
     Slice(netloc, d + 1, Len(netloc)) \in HIGH_TRUST_DOMAINS}

\* the keywords of PHISHING_KEYWORDS found as whole words
MatchingKeywords(netloc) ==
  {kw \in PHISHING_KEYWORDS : WholeWordMatch(netloc, kw)}

\* is_authorized of the brand loop
IsAuthorized(netloc, allowed_domains) ==
  \E allowed \in allowed_domains :
     netloc = allowed \/ EndsWith(netloc, <<".">> \o allowed)

\* the brand loop from entry i on: the first brand contained in netloc and
\* not authorized, or << >>
RECURSIVE BrandMimicry(_, _)
BrandMimicry(netloc, i) ==
  IF i > Len(BRAND_PATTERNS) THEN << >>
  ELSE IF /\ Contains(netloc, BRAND_PATTERNS[i].brand)
          /\ ~IsAuthorized(netloc, BRAND_PATTERNS[i].allowed_domains)
       THEN BRAND_PATTERNS[i].brand
       ELSE BrandMimicry(netloc, i + 1)

\* a typosquat loop that accepts one edit only; C12 tells it apart from the
\* code's loop
TyposquatTargets_OneEdit(netloc) ==
  IF Len(netloc) > 4
  THEN {trusted \in HIGH_TRUST_DOMAINS :
          /\ Abs(Len(netloc) - Len(trusted)) <= 2
          /\ LET dist == levenshtein_distance(netloc, trusted)
             IN  0 < dist /\ dist <= 1}
  ELSE {}

\* the trusted domains the typosquat loop can return on
TyposquatTargets(netloc) ==
  IF Len(netloc) > 4
  THEN {trusted \in HIGH_TRUST_DOMAINS :
          /\ Abs(Len(netloc) - Len(trusted)) <= 2
          /\ LET dist == levenshtein_distance(netloc, trusted)
             IN  0 < dist /\ dist <= 2}
  ELSE {}

\* The rules after the normalisation.  The keyword loop and the typosquat
\* loop iterate a Python set and return on the first hit, so each yields one
\* verdict per element that can come first.
DomainRules(netloc) ==
  IF netloc = << >> \/ ~Contains(netloc, <<".">>)
  THEN {Verdict(FALSE, "invalid_domain_format", << >>, 0)}
  ELSE IF TrustedTldsOf(netloc) # {}
  THEN LET i == CHOOSE k \in TrustedTldsOf(netloc) :
                   \A m \in TrustedTldsOf(netloc) : k <= m
       IN  {Verdict(TRUE, "trusted_tld_", TRUSTED_TLDS[i], 4)}
  ELSE IF netloc \in HIGH_TRUST_DOMAINS
  THEN {Verdict(TRUE, "exact_domain_match", << >>, 3)}
  ELSE IF Cardinality(Positions(netloc, ".")) >= 2 /\ ParentDots(netloc) # {}
  THEN LET d == CHOOSE k \in ParentDots(netloc) :
                   \A m \in ParentDots(netloc) : k <= m
       IN  {Verdict(TRUE, "subdomain_of_", Slice(netloc, d + 1, Len(netloc)), 2)}
  ELSE IF MatchingKeywords(netloc) # {}
  THEN {Verdict(FALSE, "contains_phishing_keyword_", kw, -3) :
          kw \in MatchingKeywords(netloc)}
  ELSE IF BrandMimicry(netloc, 1) # << >>
  THEN {Verdict(FALSE, "brand_mimicry_detected_", BrandMimicry(netloc, 1), -9)}
  ELSE IF TyposquatTargets(netloc) # {}
  THEN {Verdict(FALSE, "typosquatting_detected_target_", t, -8) :
          t \in TyposquatTargets(netloc)}
  ELSE {Verdict(FALSE, "not_whitelisted", << >>, 0)}

\* analyze_domain_risk(url): the verdicts a call can return
analyze_domain_risk(url) ==
  IF urlparse(Lower(url)).error
  THEN {Verdict(FALSE, "parse_error", << >>, 0)}
  ELSE DomainRules(NormalizedNetloc(url))

\* ------------------------------------------------------------------------
\* Inputs of the domain analyzer
\* ------------------------------------------------------------------------

\* most labels a generated host has before its TLD
MaxLabels == 3

DomainLabels ==
  { <<"a","c","c","o","u","n","t","s">>, <<"g","o","o","g","l","e">>,
    <<"s","e","c","u","r","e">>, <<"p","a","y","p","a","l">>,
    <<"g","o","g","l","e">> }

DomainSeparators == { <<".">>, <<"-">> }

DomainTlds == { <<"c","o","m">>, <<"t","k">>, <<"g","o","v">> }

\* label (sep label)*, with at most n labels
RECURSIVE LabelChains(_)
LabelChains(n) ==
  IF n = 0 THEN {}
  ELSE DomainLabels \cup
       {c \o s \o l : c \in LabelChains(n - 1), s \in DomainSeparators,
                      l \in DomainLabels}

DomainHosts ==
  {c \o <<".">> \o t : c \in LabelChains(MaxLabels), t \in DomainTlds}

DomainInputs == {HTTP_PREFIX \o h : h \in DomainHosts}

DomainInputTable == [u \in DomainInputs |-> analyze_domain_risk(u)]

\* str.upper() on one character of a host
UpperChar(c) ==
  CASE c = "a" -> "A" [] c = "b" -> "B" [] c = "c" -> "C" [] c = "d" -> "D"
    [] c = "e" -> "E" [] c = "f" -> "F" [] c = "g" -> "G" [] c = "h" -> "H"
    [] c = "i" -> "I" [] c = "j" -> "J" [] c = "k" -> "K" [] c = "l" -> "L"
    [] c = "m" -> "M" [] c = "n" -> "N" [] c = "o" -> "O" [] c = "p" -> "P"
    [] c = "q" -> "Q" [] c = "r" -> "R" [] c = "s" -> "S" [] c = "t" -> "T"
    [] c = "u" -> "U" [] c = "v" -> "V" [] c = "w" -> "W" [] c = "x" -> "X"
    [] c = "y" -> "Y" [] c = "z" -> "Z" [] OTHER -> c

Upper(s) == [i \in 1..Len(s) |-> UpperChar(s[i])]

\* hosts for the normalisation: the generated hosts of up to two labels, a
\* host without a dot and the empty host
NormalizeHosts ==
  {c \o <<".">> \o t : c \in LabelChains(2), t \in DomainTlds}
    \cup { <<"l","o","c","a","l","h","o","s","t">>, << >> }

NormalizeInputs == {HTTP_PREFIX \o h : h \in NormalizeHosts}

\* the host of a normalisation input
PlainHost(url) == Slice(url, Len(HTTP_PREFIX) + 1, Len(url))

\* the same host written with an explicit port, a www. prefix, a path, and
\* in upper case
WithPort(url) == url \o <<":","8","0","8","0">>
WithWww(url)  == HTTP_PREFIX \o <<"w","w","w",".">> \o PlainHost(url)
WithPath(url) == url \o <<"/","l","o","g","i","n">>
WithUpper(url) == HTTP_PREFIX \o Upper(PlainHost(url))

VariantsOf(url) == {WithPort(url), WithWww(url), WithPath(url), WithUpper(url)}

\* hosts holding two phishing keywords, and hosts one or two edits away from
\* trusted domains
DeterminismHosts ==
  { <<"s","e","c","u","r","e","-","l","o","g","i","n",".","c","o","m">>,
    <<"l","o","g","i","n",".","v","e","r","i","f","y",".","t","k">>,
    <<"g","o","g","l","e",".","c","o","m">>,
    <<"p","a","y","p","a","1",".","c","o","m">>,
    <<"e","b","a","y",".","c","o">> }

\* misspelt trusted domains: the two of test_logic.py and one two edits away
TyposquatHosts ==
  { <<"g","o","g","l","e",".","c","o","m">>,
    <<"p","a","y","p","a","1",".","c","o","m">>,
    <<"g","o","g","l","e",".","c","o">> }

TyposquatInputs == {HTTP_PREFIX \o h : h \in TyposquatHosts}

DeterminismInputs ==
  NormalizeInputs \cup {HTTP_PREFIX \o h : h \in DeterminismHosts}

\* ------------------------------------------------------------------------
\* Inputs of the orchestrator
\* ------------------------------------------------------------------------

\* https://www.google.com
URL_GOOGLE ==
  <<"h","t","t","p","s",":","/","/","w","w","w",".","g","o","o","g","l","e",
    ".","c","o","m">>

\* https://www.leecode.com
URL_LEECODE ==
  <<"h","t","t","p","s",":","/","/","w","w","w",".","l","e","e","c","o","d",
    "e",".","c","o","m">>

\* http://paypal-support.com
URL_PAYPAL_SUPPORT ==
  <<"h","t","t","p",":","/","/","p","a","y","p","a","l","-","s","u","p","p",
    "o","r","t",".","c","o","m">>

\* https://example.com
URL_EXAMPLE_HTTPS ==
  <<"h","t","t","p","s",":","/","/","e","x","a","m","p","l","e",".","c","o",
    "m">>

\* http://example.com
URL_EXAMPLE_HTTP ==
  <<"h","t","t","p",":","/","/","e","x","a","m","p","l","e",".","c","o",
    "m">>

\* https://mail.google.com
URL_MAIL_GOOGLE ==
  <<"h","t","t","p","s",":","/","/","m","a","i","l",".","g","o","o","g","l",
    "e",".","c","o","m">>

\* example.com
URL_NO_SCHEME ==
  <<"e","x","a","m","p","l","e",".","c","o","m">>

\* " http://example.com "
URL_EXAMPLE_PADDED ==
  <<" ","h","t","t","p",":","/","/","e","x","a","m","p","l","e",".","c","o",
    "m"," ">>

\* two blanks
URL_BLANK == <<" "," ">>

\* http://
URL_NO_HOST == <<"h","t","t","p",":","/","/">>

\* http://example.com/<SCRIPT>
URL_SCRIPT ==
  <<"h","t","t","p",":","/","/","e","x","a","m","p","l","e",".","c","o","m",
    "/","<","S","C","R","I","P","T",">">>

\* http://aaa...a.com, one character over the validator's maximum
URL_TOO_LONG ==
  <<"h","t","t","p",":","/","/">>
    \o [i \in 1..(2048 - 10) |-> "a"] \o <<".","c","o","m">>

\* URLs the validator refuses, one for each of its rules
RejectedUrls ==
  { URL_NO_SCHEME, URL_BLANK, URL_NO_HOST, URL_SCRIPT, URL_TOO_LONG }

\* URLs of the pipeline specification
RequestUrls ==
  { URL_GOOGLE, URL_LEECODE, URL_PAYPAL_SUPPORT, URL_EXAMPLE_HTTPS,
    URL_EXAMPLE_HTTP, URL_MAIL_GOOGLE, URL_NO_SCHEME }

\* URLs of the error-terminal specification
ErrorUrls == RejectedUrls \cup { URL_GOOGLE }

\* URLs of the cache specification
CacheUrls == { URL_GOOGLE, URL_EXAMPLE_HTTP, URL_EXAMPLE_PADDED }

\* http://accounts-google-verify.tk/login
URL_MIMICRY ==
  <<"h","t","t","p",":","/","/","a","c","c","o","u","n","t","s","-","g","o",
    "o","g","l","e","-","v","e","r","i","f","y",".","t","k","/","l","o","g",
    "i","n">>

\* URLs of the end-to-end specification
EndToEndUrls == { URL_GOOGLE, URL_MIMICRY }

\* a URL of an unknown domain, without TLS and with an @ in its path
URL_EXAMPLE_AT == URL_EXAMPLE_HTTP \o << "/", "a", "@", "b" >>

\* URLs of a domain the analyzer neither trusts nor suspects
ConfidenceUrls == { URL_EXAMPLE_HTTP, URL_EXAMPLE_HTTPS, URL_EXAMPLE_AT }

\* phishing scores of the fallback engine, within its clamp [0.01, 0.99]
Scores == { 10000, 30000, 90000 }

CacheScores == { 30000, 90000 }

\* POST /predict with its defaults, and POST /predict/fast
CacheModes ==
  { [include_explanation |-> TRUE, skip_external_checks |-> FALSE],
    [include_explanation |-> FALSE, skip_external_checks |-> TRUE] }

ExplanationOutcomes == { "ok", "timeout", "error" }

AvailabilityOutcomes ==
  { [kind |-> "success", status_code |-> 200],
    [kind |-> "success", status_code |-> 403],
    [kind |-> "ssl_error", status_code |-> 0],
    [kind |-> "timeout", status_code |-> 0],
    [kind |-> "connection_error", status_code |-> 0],
    [kind |-> "wait_for_timeout", status_code |-> 0] }

GeoOutcomes == { "ok", "wait_for_timeout", "error" }

\* ------------------------------------------------------------------------
\* Numbers: probabilities and confidences in units of 1/ONE
\* ------------------------------------------------------------------------

\* 1.0
ONE == 100000

\* round(x, 4): four decimals are units of ten
Round4(x) == ((x + 5) \div 10) * 10

\* default threshold of MLModel.predict, 0.85
THRESHOLD == 85000

\* ------------------------------------------------------------------------
\* Hashing and URL helpers
\* ------------------------------------------------------------------------

\* hashlib.md5(text).hexdigest(): a text again, taken to be collision free
Md5(text) == <<"md5:">> \o text

\* str.strip()
RECURSIVE Strip(_)
Strip(s) ==
  IF s = << >> THEN s
  ELSE IF Head(s) = " " THEN Strip(Tail(s))
  ELSE IF s[Len(s)] = " " THEN Strip(Slice(s, 1, Len(s) - 1))
  ELSE s

\* get_url_hash of routes/predict.py
get_url_hash(url) == Md5(Lower(Strip(url)))

\* ThreadSafeTTLCache._get_key
CacheKey(url) == Md5(url)

\* maximum URL length of the validator
MAX_URL_LENGTH == 2048

\* minimum URL length of the validator
MIN_URL_LENGTH == 4

SUSPICIOUS_PATTERNS ==
  { <<"<","s","c","r","i","p","t">>,
    <<"j","a","v","a","s","c","r","i","p","t",":">>,
    <<"d","a","t","a",":">>,
    <<"v","b","s","c","r","i","p","t",":">> }

\* URLValidator.is_valid_url(url)[0]
is_valid_url(url) ==
  /\ url # << >> /\ Strip(url) # << >>
  /\ Len(url) <= MAX_URL_LENGTH
  /\ Len(url) >= MIN_URL_LENGTH
  /\ (StartsWith(url, HTTP_PREFIX) \/ StartsWith(url, HTTPS_PREFIX))
  /\ ~urlparse(url).error
  /\ urlparse(url).netloc # << >>
  /\ \A pattern \in SUSPICIOUS_PATTERNS : ~Contains(Lower(url), pattern)

\* the IsHTTPS feature of URLFeatureExtractor.extract_features
IsHTTPS(url) ==
  LET u == IF StartsWith(url, HTTP_PREFIX) \/ StartsWith(url, HTTPS_PREFIX)
           THEN url ELSE HTTP_PREFIX \o url
  IN  IF urlparse(u).scheme = <<"h","t","t","p","s">> THEN 1 ELSE 0

\* ------------------------------------------------------------------------
\* Classifier verdict
\* ------------------------------------------------------------------------

\* MLModel.predict on the one-row frame of predict_single_url: the constant
\* check over a single row always holds, so the call is answered by
\* _rule_based_fallback, whose clamped and jittered phishing_score is the
\* input p
ml_model_predict(p) ==
  [pred_class    |-> IF p >= THRESHOLD THEN 0 ELSE 1,
   phishing_prob |-> p,
   legit_prob    |-> ONE - p]

\* ------------------------------------------------------------------------
\* URLFeatureExtractor and the rule-based fallback
\* ------------------------------------------------------------------------

IsDigit(c) == c \in {"0","1","2","3","4","5","6","7","8","9"}

\* str.isalnum() on one character of a URL
IsAlnum(c) == IsDigit(c) \/ LowerChar(c) # c \/ UpperChar(c) # c

\* s[i..i+n-1] are digits
DigitsAt(s, i, n) == i + n - 1 <= Len(s) /\ \A k \in i..(i + n - 1) : IsDigit(s[k])

\* IP_PATTERN from position i on, with k groups of one to three digits left
RECURSIVE IpFrom(_, _, _)
IpFrom(s, i, k) ==
  \E n \in 1..3 :
     /\ DigitsAt(s, i, n)
     /\ IF k = 1
        THEN i + n > Len(s) \/ ~IsWordChar(s[i + n])
        ELSE /\ i + n <= Len(s)
             /\ s[i + n] = "."
             /\ IpFrom(s, i + n + 1, k - 1)

\* _has_ip: IP_PATTERN.search(domain)
HasIP(domain) ==
  \E i \in 1..Len(domain) :
     /\ (i = 1 \/ ~IsWordChar(domain[i - 1]))
     /\ IpFrom(domain, i, 4)

\* the alternatives of SUSPICIOUS_KEYWORDS_PATTERN, in their order
SUSPICIOUS_KEYWORDS ==
  << <<"l","o","g","i","n">>, <<"s","i","g","n","i","n">>,
     <<"a","c","c","o","u","n","t">>, <<"v","e","r","i","f","y">>,
     <<"s","e","c","u","r","e">>, <<"u","p","d","a","t","e">>,
     <<"b","a","n","k","i","n","g">>, <<"c","o","n","f","i","r","m">>,
     <<"p","a","s","s","w","o","r","d">>,
     <<"c","r","e","d","e","n","t","i","a","l">>,
     <<"p","a","y","p","a","l">>, <<"e","b","a","y">>,
     <<"a","m","a","z","o","n">>, <<"f","a","c","e","b","o","o","k">>,
     <<"g","o","o","g","l","e">>, <<"a","p","p","l","e">>,
     <<"w","a","l","l","e","t">>, <<"b","a","n","k">>,
     <<"s","e","c","u","r","i","t","y">>,
     <<"a","u","t","h","e","n","t","i","c","a","t","e">>,
     <<"v","a","l","i","d","a","t","i","o","n">>, <<"c","l","i","c","k">>,
     <<"s","u","s","p","i","c","i","o","u","s">>, <<"a","l","e","r","t">>,
     <<"w","a","r","n","i","n","g">>, <<"i","m","p","o","r","t","a","n","t">>,
     <<"u","r","g","e","n","t">>, <<"i","m","m","e","d","i","a","t","e">>,
     <<"a","c","t","i","o","n">>, <<"r","e","q","u","i","r","e","d">>,
     <<"p","h","i","s","h">> >>

\* the alternatives that match s at position i
KeywordsAt(s, i) ==
  {k \in 1..Len(SUSPICIOUS_KEYWORDS) :
     /\ i + Len(SUSPICIOUS_KEYWORDS[k]) - 1 <= Len(s)
     /\ Slice(s, i, i + Len(SUSPICIOUS_KEYWORDS[k]) - 1) = SUSPICIOUS_KEYWORDS[k]}

\* _count_keywords: len(PATTERN.findall(s)), scanning from position i; a
\* match is the first alternative that fits, and the scan goes on after it
RECURSIVE CountKeywords(_, _)
CountKeywords(s, i) ==
  IF i > Len(s) THEN 0
  ELSE IF KeywordsAt(s, i) = {} THEN CountKeywords(s, i + 1)
  ELSE LET k == CHOOSE a \in KeywordsAt(s, i) : \A b \in KeywordsAt(s, i) : a <= b
       IN  1 + CountKeywords(s, i + Len(SUSPICIOUS_KEYWORDS[k]))

\* self.suspicious_tlds
SUSPICIOUS_TLDS ==
  { <<".","t","k">>, <<".","m","l">>, <<".","g","a">>, <<".","c","f">>,
    <<".","g","q">>, <<".","x","y","z">>, <<".","t","o","p">>,
    <<".","c","l","u","b">>, <<".","l","o","a","n">>,
    <<".","c","l","i","c","k">>, <<".","w","i","n">>, <<".","b","i","d">>,
    <<".","s","t","r","e","a","m">>,
    <<".","d","o","w","n","l","o","a","d">>, <<".","w","o","r","k">> }

\* short_url_domains of _is_short_url
SHORT_URL_DOMAINS ==
  { <<"b","i","t",".","l","y">>, <<"t","i","n","y","u","r","l",".","c","o","m">>,
    <<"g","o","o",".","g","l">>, <<"o","w",".","l","y">>, <<"t",".","c","o">>,
    <<"i","s",".","g","d">>, <<"b","u","f","f",".","l","y">>,
    <<"a","d","f",".","l","y">>, <<"s","h","o","r","t","e",".","s","t">>,
    <<"b","c",".","v","c">>, <<"t","i","n","y",".","c","c">>,
    <<"t","r",".","i","m">>,
    <<"p","r","e","t","t","y","l","i","n","k",".","p","r","o">>,
    <<"s","h","o","r","t",".","t","o">> }

\* the digits of the explicit port of netloc, << >> when there is none
PortDigits(netloc) ==
  IF Contains(netloc, <<":">>)
  THEN LET colons == Positions(netloc, ":")
           last == CHOOSE c \in colons : \A d \in colons : d <= c
       IN  Slice(netloc, last + 1, Len(netloc))
  ELSE << >>

\* int() of a digit string, digit by digit from the left; acc is the value
\* read so far
RECURSIVE IntOf(_, _)
IntOf(ds, acc) ==
  IF ds = << >> THEN acc
  ELSE LET d == CHOOSE n \in 0..9 :
                  <<"0","1","2","3","4","5","6","7","8","9">>[n + 1] = Head(ds)
       IN  IntOf(Tail(ds), 10 * acc + d)

\* parsed.port raises ValueError: the port is not a number or is above 65535
PortRaises(netloc) ==
  /\ PortDigits(netloc) # << >>
  /\ \/ \E i \in 1..Len(PortDigits(netloc)) : ~IsDigit(PortDigits(netloc)[i])
     \/ Len(PortDigits(netloc)) > 5
     \/ IntOf(PortDigits(netloc), 0) > 65535

\* suspicious_ports of _has_suspicious_port_value
SUSPICIOUS_PORTS == {8080, 8443, 4444, 4443, 8888, 3389, 5900}

\* the features of extract_features that the fallback reads; ratios are kept
\* as counts, SpecialChars of URLLength characters
extract_features(raw) ==
  LET url == IF StartsWith(raw, HTTP_PREFIX) \/ StartsWith(raw, HTTPS_PREFIX)
             THEN raw ELSE HTTP_PREFIX \o raw
      parsed == urlparse(url)
      domain == IF Contains(parsed.netloc, <<":">>)
                THEN BeforeFirst(parsed.netloc, ":") ELSE parsed.netloc
      nofragment == IF Contains(parsed.path, <<"#">>)
                    THEN BeforeFirst(parsed.path, "#") ELSE parsed.path
      path == IF Contains(nofragment, <<"?">>) THEN BeforeFirst(nofragment, "?")
              ELSE nofragment
  IN  IF PortRaises(parsed.netloc)
      THEN [URLLength |-> Len(url), IsHTTPS |-> 0, SubdomainLevel |-> 0,
            HasIPAddress |-> 0, HasAt |-> 0, NumSensitiveWords |-> 0,
            HasDoubleSlash |-> 0, HasSuspiciousTLD |-> 0, SpecialChars |-> 0,
            IsShortURL |-> 0, HasSuspiciousPort |-> 0]
      ELSE
      [URLLength |-> Len(url),
       IsHTTPS |-> IF parsed.scheme = <<"h","t","t","p","s">> THEN 1 ELSE 0,
       SubdomainLevel |-> Cardinality(Positions(domain, ".")),
       HasIPAddress |-> IF HasIP(domain) THEN 1 ELSE 0,
       HasAt |-> IF Contains(url, <<"@">>) THEN 1 ELSE 0,
       NumSensitiveWords |-> CountKeywords(Lower(url), 1),
       HasDoubleSlash |-> IF Contains(path, <<"/","/">>) THEN 1 ELSE 0,
       HasSuspiciousTLD |->
         IF \E tld \in SUSPICIOUS_TLDS : EndsWith(domain, tld) THEN 1 ELSE 0,
       SpecialChars |-> Cardinality({i \in 1..Len(url) : ~IsAlnum(url[i])}),
       IsShortURL |->
         IF \E d \in SHORT_URL_DOMAINS : Contains(Lower(domain), d) THEN 1 ELSE 0,
       HasSuspiciousPort |->
         IF /\ PortDigits(parsed.netloc) # << >>
            /\ IntOf(PortDigits(parsed.netloc), 0) \in SUSPICIOUS_PORTS
         THEN 1 ELSE 0]

\* the features the fallback's feature_rules read
RULE_FEATURES ==
  {"IsHTTPS", "URLLength", "HasIPAddress", "NumSensitiveWords",
   "HasSuspiciousTLD", "SpecialCharRatio", "SubdomainLevel", "HasAt",
   "IsShortURL", "HasDoubleSlash", "HasSuspiciousPort"}

\* The feature names pickled with the model (feature_names_*.pkl), as far as
\* the fallback reads them: all of them, or all but one.
FeatureNameLists ==
  {RULE_FEATURES} \cup {RULE_FEATURES \ {f} : f \in RULE_FEATURES}

\* extract_with_defaults and the alignment of predict: a feature the model
\* does not name reads 0.0
aligned_features(features, feature_names) ==
  [URLLength |-> IF "URLLength" \in feature_names THEN features.URLLength ELSE 0,
   IsHTTPS |-> IF "IsHTTPS" \in feature_names THEN features.IsHTTPS ELSE 0,
   SubdomainLevel |->
     IF "SubdomainLevel" \in feature_names THEN features.SubdomainLevel ELSE 0,
   HasIPAddress |->
     IF "HasIPAddress" \in feature_names THEN features.HasIPAddress ELSE 0,
   HasAt |-> IF "HasAt" \in feature_names THEN features.HasAt ELSE 0,
   NumSensitiveWords |->
     IF "NumSensitiveWords" \in feature_names THEN features.NumSensitiveWords
     ELSE 0,
   HasDoubleSlash |->
     IF "HasDoubleSlash" \in feature_names THEN features.HasDoubleSlash ELSE 0,
   HasSuspiciousTLD |->
     IF "HasSuspiciousTLD" \in feature_names THEN features.HasSuspiciousTLD
     ELSE 0,
   SpecialChars |->
     IF "SpecialCharRatio" \in feature_names THEN features.SpecialChars ELSE 0,
   TotalChars |-> features.URLLength,
   IsShortURL |-> IF "IsShortURL" \in feature_names THEN features.IsShortURL ELSE 0,
   HasSuspiciousPort |->
     IF "HasSuspiciousPort" \in feature_names THEN features.HasSuspiciousPort
     ELSE 0]

\* the contributions of the feature_rules that fire, in the order of the
\* list, in units of 1/ONE
Indicators(row) ==
  LET special == 10 * row.SpecialChars > 3 * row.TotalChars
  IN  << IF row.IsHTTPS = 0 THEN 35000 ELSE 0,
         IF row.URLLength > 60
         THEN 15000 + Min2(250 * (row.URLLength - 60), 30000) ELSE 0,
         IF row.HasIPAddress >= 1 THEN 25000 ELSE 0,
         IF row.NumSensitiveWords >= 1 THEN 25000 ELSE 0,
         IF row.HasSuspiciousTLD >= 1 THEN 20000 ELSE 0,
         IF special
         THEN Min2((25000 * row.SpecialChars) \div row.TotalChars, 30000) ELSE 0,
         IF row.SubdomainLevel > 3
         THEN 5000 + Min2((5000 * (row.SubdomainLevel - 3)) \div 3, 15000)
         ELSE 0,
         IF row.HasAt >= 1 THEN 15000 ELSE 0,
         IF row.IsShortURL >= 1 THEN 10000 ELSE 0,
         IF row.HasDoubleSlash >= 1 THEN 5000 ELSE 0,
         IF row.HasSuspiciousPort >= 1 THEN 10000 ELSE 0 >>

RECURSIVE SumSeq(_)
SumSeq(xs) == IF xs = << >> THEN 0 ELSE Head(xs) + SumSeq(Tail(xs))

\* np.random.uniform(-0.01, 0.01): its ends and its middle
RANDOM_VARIATIONS == {-1000, 0, 1000}

\* max(0.01, min(0.99, x))
Clamp(x) == Max2(1000, Min2(99000, x))

\* _rule_based_fallback on one row: the phishing scores it can produce
rule_based_fallback(row) ==
  LET contributions == Indicators(row)
      indicator_count ==
        Cardinality({i \in 1..Len(contributions) : contributions[i] > 0})
      has_https == row.IsHTTPS >= 1
      short_url == row.URLLength < 30
      no_ip == row.HasIPAddress = 0
      no_sensitive_words == row.NumSensitiveWords = 0
      legitimate_count ==
        Cardinality({b \in {<<1, has_https>>, <<2, short_url>>, <<3, no_ip>>,
                            <<4, no_sensitive_words>>} : b[2]})
      s0 == SumSeq(contributions)
      s1 == IF has_https THEN (s0 * 6) \div 10 ELSE s0
      s2 == IF short_url THEN (s1 * 8) \div 10 ELSE s1
      s3 == IF no_ip THEN (s2 * 9) \div 10 ELSE s2
      s4 == IF no_sensitive_words THEN (s3 * 9) \div 10 ELSE s3
      boosted ==
        IF indicator_count >= 4 THEN Max2(s4, 95000)
        ELSE IF indicator_count >= 3 THEN Max2(s4, 90000)
        ELSE IF indicator_count >= 2 THEN Max2(s4, 86000)
        ELSE IF indicator_count = 1 THEN Max2(s4, 45000)
        ELSE IF legitimate_count >= 3 THEN Min2(s4, 10000)
        ELSE IF legitimate_count >= 2 THEN Min2(s4, 20000)
        ELSE IF legitimate_count >= 1 THEN Min2(s4, 30000)
        ELSE 40000
  IN  {Clamp(Clamp(boosted) + v) : v \in RANDOM_VARIATIONS}

\* how many feature_rules fire on a row
IndicatorCount(row) ==
  Cardinality({i \in 1..Len(Indicators(row)) : Indicators(row)[i] > 0})

\* the phishing scores ml_model.predict can return for url when the model
\* names feature_names
FallbackScores(url, feature_names) ==
  rule_based_fallback(aligned_features(extract_features(url), feature_names))

\* ------------------------------------------------------------------------
\* predict_single_url, steps 6 to 8
\* ------------------------------------------------------------------------

\* step 6: domain confidence adjustment (boost in tenths)
AdjustConfidence(ml_confidence, domain_boost) ==
  IF domain_boost > 0
  THEN Min2(ml_confidence + (domain_boost * (ONE - ml_confidence)) \div 10,
            99000)
  ELSE IF domain_boost < 0
  THEN Max2((ml_confidence * (10 + domain_boost)) \div 10, 1000)
  ELSE ml_confidence

\* `"typosquatting_detected" in domain_reason`: the interpolated part of a
\* reason is a TLD, a trusted domain, a keyword or a brand, none of which
\* holds the marker, so the test is decided by the fixed text
IsTyposquatReason(v) == v.kind = "typosquatting_detected_target_"

\* `"brand_mimicry_detected" in domain_reason`
IsBrandMimicryReason(v) == v.kind = "brand_mimicry_detected_"

\* a step 7 without the trust branch's label: a trusted domain keeps the
\* classifier's label; C6 tells it apart from the code's step 7
OverrideDecision_TrustFollowsClassifier(v, cls, final_confidence) ==
  IF v.is_whitelisted /\ v.boost > 2
  THEN IF cls.legit_prob < 5000 /\ cls.phishing_prob > 95000
       THEN [prediction |-> "phishing", final_confidence |-> cls.phishing_prob,
             ml_overridden |-> TRUE]
       ELSE [prediction |-> IF cls.pred_class = 0 THEN "phishing"
                            ELSE "legitimate",
             final_confidence |-> Max2(final_confidence, 80000),
             ml_overridden |-> FALSE]
  ELSE IF IsTyposquatReason(v) \/ IsBrandMimicryReason(v)
  THEN [prediction |-> "phishing",
        final_confidence |-> Max2(final_confidence, 95000),
        ml_overridden |-> FALSE]
  ELSE [prediction |-> IF cls.pred_class = 0 THEN "phishing" ELSE "legitimate",
        final_confidence |-> final_confidence,
        ml_overridden |-> FALSE]

\* a step 7b whose lookalike floor is 0.90 instead of 0.95; C7 tells it
\* apart from the code's step 7b
OverrideDecision_LookalikeFloor90(v, cls, final_confidence) ==
  IF v.is_whitelisted /\ v.boost > 2
  THEN IF cls.legit_prob < 5000 /\ cls.phishing_prob > 95000
       THEN [prediction |-> "phishing", final_confidence |-> cls.phishing_prob,
             ml_overridden |-> TRUE]
       ELSE [prediction |-> "legitimate",
             final_confidence |-> Max2(final_confidence, 80000),
             ml_overridden |-> FALSE]
  ELSE IF IsTyposquatReason(v) \/ IsBrandMimicryReason(v)
  THEN [prediction |-> "phishing",
        final_confidence |-> Max2(final_confidence, 90000),
        ml_overridden |-> FALSE]
  ELSE [prediction |-> IF cls.pred_class = 0 THEN "phishing" ELSE "legitimate",
        final_confidence |-> final_confidence,
        ml_overridden |-> FALSE]

\* step 7 and 7b: smart prediction override
OverrideDecision(v, cls, final_confidence) ==
  IF v.is_whitelisted /\ v.boost > 2
  THEN IF cls.legit_prob < 5000 /\ cls.phishing_prob > 95000
       THEN [prediction |-> "phishing", final_confidence |-> cls.phishing_prob,
             ml_overridden |-> TRUE]
       ELSE [prediction |-> "legitimate",
             final_confidence |-> Max2(final_confidence, 80000),
             ml_overridden |-> FALSE]
  ELSE IF IsTyposquatReason(v) \/ IsBrandMimicryReason(v)
  THEN [prediction |-> "phishing",
        final_confidence |-> Max2(final_confidence, 95000),
        ml_overridden |-> FALSE]
  ELSE [prediction |-> IF cls.pred_class = 0 THEN "phishing" ELSE "legitimate",
        final_confidence |-> final_confidence,
        ml_overridden |-> FALSE]

\* step 8: risk level
RiskLevel(prediction, final_confidence) ==
  IF prediction = "phishing"
  THEN IF final_confidence >= 90000 THEN "critical"
       ELSE IF final_confidence >= 75000 THEN "high"
       ELSE IF final_confidence >= 60000 THEN "medium"
       ELSE "low"
  ELSE IF final_confidence >= 95000 THEN "very_low"
       ELSE IF final_confidence >= 85000 THEN "low"
       ELSE IF final_confidence >= 70000 THEN "caution"
       ELSE "warning"

\* ------------------------------------------------------------------------
\* External checks
\* ------------------------------------------------------------------------

\* Optional[bool] values are "True", "False", "None"; a status_code of None
\* is 0
PyBool(b) == IF b THEN "True" ELSE "False"

\* no availability dict (availability = None)
NoAvailability ==
  [present |-> FALSE, status |-> "none", is_accessible |-> "None",
   status_code |-> 0, ssl_valid |-> "None"]

\* what check_url_availability returns, by the branch it ends in
check_url_availability(url, outcome) ==
  IF outcome.kind = "success"
  THEN [present |-> TRUE, status |-> "success",
        is_accessible |->
          PyBool(outcome.status_code < 400 \/ outcome.status_code = 404),
        status_code |-> outcome.status_code,
        ssl_valid |-> PyBool(StartsWith(url, HTTPS_PREFIX))]
  ELSE IF outcome.kind = "ssl_error"
  THEN [present |-> TRUE, status |-> "ssl_error", is_accessible |-> "False",
        status_code |-> 0, ssl_valid |-> "False"]
  ELSE IF outcome.kind \in {"timeout", "error"}
  THEN [present |-> TRUE, status |-> outcome.kind, is_accessible |-> "None",
        status_code |-> 0, ssl_valid |-> "None"]
  ELSE \* connection_error, redirect_loop, request_error
       [present |-> TRUE, status |-> outcome.kind, is_accessible |-> "False",
        status_code |-> 0, ssl_valid |-> "None"]

\* the availability dict of predict_single_url: the checker's result, or the
\* default built when asyncio.wait_for times out or raises
AvailabilityOf(url, outcome) ==
  IF outcome.kind = "wait_for_timeout"
  THEN [present |-> TRUE, status |-> "timeout", is_accessible |-> "False",
        status_code |-> 0, ssl_valid |-> "None"]
  ELSE IF outcome.kind = "wait_for_error"
  THEN [present |-> TRUE, status |-> "error", is_accessible |-> "False",
        status_code |-> 0, ssl_valid |-> "None"]
  ELSE check_url_availability(url, outcome)

\* `not availability.get('is_accessible')`
IsOffline(availability) == availability.is_accessible # "True"

\* `availability.get('status_code') in [403, 405]`
IsRestricted(availability) == availability.status_code \in {403, 405}

\* an adjustment that downgrades only risk very_low, leaving low alone; C8
\* tells it apart from the code's adjustment
AvailabilityAdjust_VeryLowOnly(d, v, availability) ==
  LET down == IsOffline(availability) \/ IsRestricted(availability)
      d1 == IF IsTyposquatReason(v) /\ down
            THEN [d EXCEPT !.prediction = "phishing",
                           !.final_confidence = 99000,
                           !.risk_level = "critical",
                           !.summary = "critical_lookalike"]
            ELSE d
  IN  IF /\ availability.present
         /\ d1.prediction = "legitimate"
         /\ ~v.is_whitelisted
         /\ down
         /\ d1.risk_level \in {"very_low"}
      THEN [d1 EXCEPT !.risk_level = "caution",
                      !.summary = "caution_offline",
                      !.final_confidence = Min2(d1.final_confidence, 70000)]
      ELSE d1

\* the two adjustments made right after the availability check; d holds
\* prediction, final_confidence, risk_level and summary
AvailabilityAdjust(d, v, availability) ==
  LET down == IsOffline(availability) \/ IsRestricted(availability)
      d1 == IF IsTyposquatReason(v) /\ down
            THEN [d EXCEPT !.prediction = "phishing",
                           !.final_confidence = 99000,
                           !.risk_level = "critical",
                           !.summary = "critical_lookalike"]
            ELSE d
  IN  IF /\ availability.present
         /\ d1.prediction = "legitimate"
         /\ ~v.is_whitelisted
         /\ down
         /\ d1.risk_level \in {"very_low", "low"}
      THEN [d1 EXCEPT !.risk_level = "caution",
                      !.summary = "caution_offline",
                      !.final_confidence = Min2(d1.final_confidence, 70000)]
      ELSE d1

\* no geo analysis (geo_analysis = None)
NoGeo ==
  [present |-> FALSE, proxy_detection |-> "None", total_blocks |-> 0,
   is_proxy_url |-> FALSE, proxy_confidence |-> "none"]

\* what full_geo_analysis can find: the number of countries that block the
\* URL, and for a proxy URL the confidence of its detection
GeoFindings ==
  [blocked            |-> [total_blocks |-> 5, is_proxy_url |-> FALSE,
                           proxy_confidence |-> "none"],
   proxy_low          |-> [total_blocks |-> 0, is_proxy_url |-> TRUE,
                           proxy_confidence |-> "low"],
   proxy_medium       |-> [total_blocks |-> 1, is_proxy_url |-> TRUE,
                           proxy_confidence |-> "medium"],
   blocked_proxy_high |-> [total_blocks |-> 7, is_proxy_url |-> TRUE,
                           proxy_confidence |-> "high"]]

\* the geo_analysis dict of predict_single_url
GeoAnalysisOf(outcome) ==
  IF outcome = "ok"
  THEN [NoGeo EXCEPT !.present = TRUE, !.proxy_detection = "dict"]
  ELSE IF outcome = "wait_for_timeout"
  THEN [NoGeo EXCEPT !.present = TRUE]
  ELSE IF outcome \in DOMAIN GeoFindings
  THEN [present |-> TRUE, proxy_detection |-> "dict",
        total_blocks |-> GeoFindings[outcome].total_blocks,
        is_proxy_url |-> GeoFindings[outcome].is_proxy_url,
        proxy_confidence |-> GeoFindings[outcome].proxy_confidence]
  ELSE NoGeo

\* a signal override that looks at ssl_valid only, not at is_accessible; C9
\* tells it apart from the code's override
SignalOverride_SslOnly(d, v, url, availability) ==
  IF /\ d.prediction = "legitimate"
     /\ availability.present
     /\ IsHTTPS(url) = 1
     /\ availability.ssl_valid = "False"
     /\ ~v.is_whitelisted
  THEN [d EXCEPT !.prediction = "phishing",
                 !.final_confidence = Max2(d.final_confidence, 65000),
                 !.risk_level = "medium",
                 !.summary = "suspicious_https"]
  ELSE d

\* critical signal override: HTTPS advertised, but SSL invalid or site down
SignalOverride(d, v, url, availability) ==
  IF /\ d.prediction = "legitimate"
     /\ availability.present
     /\ IsHTTPS(url) = 1
     /\ (availability.ssl_valid = "False" \/ availability.is_accessible = "False")
     /\ ~v.is_whitelisted
  THEN [d EXCEPT !.prediction = "phishing",
                 !.final_confidence = Max2(d.final_confidence, 65000),
                 !.risk_level = "medium",
                 !.summary = "suspicious_https"]
  ELSE d

\* geo_analysis.get('proxy_detection', {}).get('is_proxy_url') raises
\* AttributeError when the dict holds proxy_detection = None
GeoRiskRaises(geo_analysis) ==
  geo_analysis.present /\ geo_analysis.proxy_detection = "None"

\* building PredictionResponse raises a validation error when the
\* availability dict holds is_accessible = None (Availability.is_accessible
\* is a required bool)
ResponseRaises(availability) ==
  availability.present /\ availability.is_accessible = "None"

\* step 10: the TTL handed to prediction_cache.set
ChooseTTL(prediction, final_confidence) ==
  IF prediction = "legitimate" /\ final_confidence > 90000 THEN 86400
  ELSE IF prediction = "phishing" /\ final_confidence > 85000 THEN 43200
  ELSE 1800

\* ------------------------------------------------------------------------
\* ThreadSafeTTLCache over cachetools.TTLCache
\* ------------------------------------------------------------------------

\* default_ttl of prediction_cache, seconds
PREDICTION_DEFAULT_TTL == 300

\* default_ttl of explanation_cache, seconds
EXPLANATION_DEFAULT_TTL == 900

\* max_size of both caches
CACHE_MAX_SIZE == 10000

\* the ttl argument of explanation_cache.set in the background task
BACKGROUND_TTL == 900

\* a cache maps keys to [value, expires]; the empty cache
EmptyCache == << >>

\* keys whose entry has not expired at time t
LiveKeys(cache, t) == {k \in DOMAIN cache : t < cache[k].expires}

\* ThreadSafeTTLCache.get(url): hit tells whether self._cache[key] succeeded
CacheGet(cache, url, t) ==
  LET key == CacheKey(url)
  IN  IF key \in LiveKeys(cache, t)
      THEN [hit |-> TRUE, key |-> key]
      ELSE [hit |-> FALSE, key |-> key]

\* TTLCache.__setitem__: expired entries are dropped, the oldest entry is
\* evicted when the cache is full, and the entry lives for the cache's one
\* TTL
TTLCacheSetItem(cache, key, value, cache_ttl, t) ==
  LET live  == LiveKeys(cache, t) \ {key}
      kept  == IF Cardinality(live) >= CACHE_MAX_SIZE
               THEN live \ {CHOOSE k \in live :
                              \A m \in live : cache[k].expires <= cache[m].expires}
               ELSE live
  IN  [k \in kept \cup {key} |->
         IF k = key THEN [value |-> value, expires |-> t + cache_ttl]
         ELSE cache[k]]

\* ThreadSafeTTLCache.set(url, value, ttl): the ttl argument is not used
CacheSet(cache, url, value, ttl, cache_ttl, t) ==
  TTLCacheSetItem(cache, CacheKey(url), value, cache_ttl, t)

\* ------------------------------------------------------------------------
\* State
\* ------------------------------------------------------------------------

VARIABLES
  now,                \* time.monotonic() of the caches, seconds
  model_loaded,       \* ml_model.is_loaded()
  prediction_cache,   \* prediction_cache._cache
  explanation_cache,  \* explanation_cache._cache
  req,                \* the predict_single_url calls in flight, by slot
  background,         \* background tasks of answered requests, not yet run
  started,            \* number of requests received
  lastReturn,         \* what the last finished POST /predict returned
  lastFetch,          \* what the last GET /predict/explanation/{hash} returned
  domUrl,             \* input of the analyze_domain_risk call under study
  domVerdict,         \* its result
  domPc,              \* "call" before, "done" after it, "both" after the
                      \* second call
  domVariant,         \* input of a second analyze_domain_risk call
  domVariantVerdict,  \* its result
  batch,              \* the predict_batch call: its URLs, the results gather
                      \* has collected, its response
  gate,               \* the semaphore of a predict_batch call and the count
                      \* of its tasks before, inside and after it
  threat,             \* a call of calculate_threat_index: its arguments and
                      \* what it returned
  explain,            \* the POST /predict/explain call: where it stands and
                      \* what it returned
  ml                  \* the MLModel singleton: the model files on disk, what
                      \* load_model left in its fields, and the last predict
                      \* call with what it returned

vars ==
  << now, model_loaded, prediction_cache, explanation_cache, req, background,
     started, lastReturn, lastFetch, domUrl, domVerdict, domPc, domVariant,
     domVariantVerdict, batch, gate, explain, threat, ml >>

orchestratorVars ==
  << now, model_loaded, prediction_cache, explanation_cache, req, background,
     started, lastReturn, lastFetch >>

domainVars == << domUrl, domVerdict, domPc, domVariant, domVariantVerdict >>

batchVars == << batch, gate, explain >>

sideVars == << threat, ml >>

\* ------------------------------------------------------------------------
\* calculate_threat_index
\* ------------------------------------------------------------------------

\* clamp(value) of calculate_threat_index, on numbers in units of 1/ONE
clamp(value) == Max2(0, Min2(ONE, value))

\* int(n / d), the truncation the code's round replaced
PyRound_Truncate(n, d) == n \div d

\* round(n / d) as Python 3 rounds a non-negative number: to the nearest
\* integer, a tie going to the even one
PyRound(n, d) ==
  LET q == n \div d
      r == n % d
  IN  IF 2 * r > d THEN q + 1
      ELSE IF 2 * r < d THEN q
      ELSE IF q % 2 = 0 THEN q ELSE q + 1


\* the weights of the five components
ML_WEIGHT == 40
SHAP_WEIGHT == 25
AVAILABILITY_WEIGHT == 15
GEO_WEIGHT == 10
PROXY_WEIGHT == 10

\* the largest threat index
THREAT_INDEX_CAP == 100

\* the lower ends of the threat levels
CRITICAL_FROM == 80
HIGH_FROM == 60
MEDIUM_FROM == 40
LOW_FROM == 20

\* the if chain with strict comparisons
ThreatLevel_Strict(threat_index) ==
  IF threat_index > CRITICAL_FROM THEN "CRITICAL"
  ELSE IF threat_index > HIGH_FROM THEN "HIGH"
  ELSE IF threat_index > MEDIUM_FROM THEN "MEDIUM"
  ELSE IF threat_index > LOW_FROM THEN "LOW"
  ELSE "MINIMAL"

\* the if chain on threat_index
ThreatLevel(threat_index) ==
  IF threat_index >= CRITICAL_FROM THEN "CRITICAL"
  ELSE IF threat_index >= HIGH_FROM THEN "HIGH"
  ELSE IF threat_index >= MEDIUM_FROM THEN "MEDIUM"
  ELSE IF threat_index >= LOW_FROM THEN "LOW"
  ELSE "MINIMAL"

\* the if chain on the clamped confidence and SHAP weight (0.9 and 0.7,
\* 0.7 and 0.5)
ModelReliability(ml_confidence, shap_risk_weight) ==
  IF ml_confidence >= 90000 /\ shap_risk_weight >= 70000 THEN "HIGH"
  ELSE IF ml_confidence >= 70000 /\ shap_risk_weight >= 50000 THEN "MEDIUM"
  ELSE "LOW"

\* calculate_threat_index: the five risks in units of 1/ONE; the scores are
\* kept in the same units (a score of 40 is 40 * ONE), the breakdown in
\* tenths, the index is an integer
calculate_threat_index(ml_confidence, shap_risk_weight, availability_risk, geo_risk, proxy_risk, prediction) ==
  LET conf  == clamp(ml_confidence)
      shap  == clamp(shap_risk_weight)
      avail == clamp(availability_risk)
      geo   == clamp(geo_risk)
      proxy == clamp(proxy_risk)
      ml_score    == IF prediction = "phishing" THEN conf * ML_WEIGHT ELSE 0
      shap_score  == shap * SHAP_WEIGHT
      avail_score == avail * AVAILABILITY_WEIGHT
      geo_score   == geo * GEO_WEIGHT
      proxy_score == proxy * PROXY_WEIGHT
      total == ml_score + shap_score + avail_score + geo_score + proxy_score
      threat_index == Min2(THREAT_INDEX_CAP, PyRound(total, ONE))
  IN  [threat_index |-> threat_index,
       threat_level |-> ThreatLevel(threat_index),
       breakdown |->
         [ml_score |-> PyRound(10 * ml_score, ONE),
          shap_score |-> PyRound(10 * shap_score, ONE),
          availability_score |-> PyRound(10 * avail_score, ONE),
          geo_score |-> PyRound(10 * geo_score, ONE),
          proxy_score |-> PyRound(10 * proxy_score, ONE)],
       model_reliability |-> ModelReliability(conf, shap)]

\* what calculate_threat_index returns before it has returned
NoThreatData ==
  [threat_index |-> 0, threat_level |-> "none",
   breakdown |-> [ml_score |-> 0, shap_score |-> 0, availability_score |-> 0,
                  geo_score |-> 0, proxy_score |-> 0],
   model_reliability |-> "none"]

\* a call of calculate_threat_index with its arguments
ThreatCall(c, s, a, g, x, prediction) ==
  [pc |-> "call", ml_confidence |-> c, shap_risk_weight |-> s,
   availability_risk |-> a, geo_risk |-> g, proxy_risk |-> x,
   prediction |-> prediction, threat_data |-> NoThreatData]

\* no call of calculate_threat_index
NoThreat == [ThreatCall(0, 0, 0, 0, 0, "none") EXCEPT !.pc = "none"]

\* the call returns
CalculateThreatIndex ==
  /\ threat.pc = "call"
  /\ threat' =
       [threat EXCEPT
          !.pc = "returned",
          !.threat_data =
            calculate_threat_index(threat.ml_confidence,
                                   threat.shap_risk_weight,
                                   threat.availability_risk, threat.geo_risk,
                                   threat.proxy_risk, threat.prediction)]
  /\ UNCHANGED orchestratorVars
  /\ UNCHANGED domainVars
  /\ UNCHANGED batchVars
  /\ UNCHANGED ml

\* ------------------------------------------------------------------------
\* MLModel
\* ------------------------------------------------------------------------

\* MODEL_MAP of load_model: the model file, the feature-name file and the
\* model type of each mode
MODEL_MAP ==
  [compatible |-> [model_filename |-> "production_xgboost_compatible.pkl",
                   feature_filename |-> "feature_names_compatible.pkl",
                   model_type |-> "compatible"],
   enhanced   |-> [model_filename |-> "production_xgboost_enhanced.pkl",
                   feature_filename |-> "feature_names_phiusiil.pkl",
                   model_type |-> "enhanced"],
   default    |-> [model_filename |-> "production_xgboost.pkl",
                   feature_filename |-> "feature_names_phiusiil.pkl",
                   model_type |-> "default"],
   fixed      |-> [model_filename |-> "production_xgboost_fixed.pkl",
                   feature_filename |-> "feature_names_fixed.pkl",
                   model_type |-> "fixed"]]

\* the files load_model may open
ModelFiles ==
  {MODEL_MAP[m].model_filename : m \in DOMAIN MODEL_MAP}
    \cup {MODEL_MAP[m].feature_filename : m \in DOMAIN MODEL_MAP}

\* a file is there and unpickles, is not there, or is there and pickle.load
\* raises on it
FileStates == { "ok", "missing", "unreadable" }

\* what a model pickle holds: the class labels in the order of the columns
\* of predict_proba (no label when the object has no classes_), and how
\* predict_proba behaves
ClassOrders == { << 0, 1 >>, << 1, 0 >>, << -1, 1 >>, << >> }

ClassifierKinds == { "varying", "constant", "flat_on_probes", "raises" }

\* column 0 of predict_proba on the three rows _check_model_health builds
\* (zeros, ones, random) and on the row of a URL, for a classifier of each
\* kind: one that separates its inputs, one that answers the same for all,
\* and one that answers the same on rows with every value in [0, 1] and
\* separates the rows of URLs (whose lengths and counts are larger)
ProbeProba(kind, probe) ==
  IF kind = "varying"
  THEN (IF probe = "zeros" THEN 10000
        ELSE IF probe = "ones" THEN 90000 ELSE 50000)
  ELSE 50000

RowProba(kind, url) ==
  IF kind = "constant" THEN 50000
  ELSE IF url = Strip(URL_GOOGLE) THEN 2000
  ELSE IF url = Strip(URL_EXAMPLE_HTTP) THEN 70000
  ELSE 97000

\* _reset_state
reset_state(m) ==
  [m EXCEPT !._model = "none", !._feature_names = "none",
            !._model_loaded = FALSE, !._model_type = "default"]

\* one activation of load_model: the fields it leaves, what it returns, and
\* whether it ends in the call load_model(mode="compatible")
LoadOnce(m, mode) ==
  LET m0 == [reset_state(m) EXCEPT !.loads = Append(m.loads, mode)]
  IN  IF mode \notin DOMAIN MODEL_MAP
      THEN [m |-> [m0 EXCEPT !.ret = "False"], again |-> FALSE]
      ELSE
        LET entry == MODEL_MAP[mode]
            m1 == [m0 EXCEPT !._model_type = entry.model_type]
            failed == [reset_state(m1) EXCEPT !.ret = "False"]
        IN  IF m.files[entry.model_filename] = "missing"
            THEN [m |-> [m1 EXCEPT !.ret = "False"],
                  again |-> mode # "compatible"]
            ELSE IF m.files[entry.feature_filename] = "missing"
            THEN [m |-> [m1 EXCEPT !.ret = "False"], again |-> FALSE]
            ELSE IF m.files[entry.model_filename] = "unreadable"
            THEN [m |-> failed, again |-> FALSE]
            ELSE IF m.files[entry.feature_filename] = "unreadable"
            THEN [m |-> failed, again |-> FALSE]
            ELSE [m |-> [m1 EXCEPT !._model = entry.model_filename,
                                   !._feature_names = entry.feature_filename,
                                   !._model_loaded = TRUE,
                                   !.ret = "True"],
                  again |-> FALSE]

\* load_model(mode): the fields of the singleton when the call has returned
LoadModelFields(m, mode) ==
  LET first == LoadOnce([m EXCEPT !.loads = << >>], mode)
  IN  IF first.again THEN LoadOnce(first.m, "compatible").m ELSE first.m

\* is_loaded
is_loaded(m) ==
  m._model_loaded /\ m._model # "none" /\ m._feature_names # "none"

\* _model_is_broken: the two probes (all zeros, all ones) answer within
\* 0.001 of each other, or predict_proba raises
model_is_broken(m) ==
  IF ~is_loaded(m) THEN TRUE
  ELSE IF m.classifier.kind = "raises" THEN TRUE
  ELSE Abs(ProbeProba(m.classifier.kind, "zeros")
             - ProbeProba(m.classifier.kind, "ones")) < 100

\* _normalize_probabilities on the rows of predict_proba, each a pair
normalize_probabilities(classes, probs) ==
  IF classes = << >> THEN probs
  ELSE IF classes = << 0, 1 >> THEN probs
  ELSE IF classes = << 1, 0 >>
  THEN [i \in DOMAIN probs |-> << probs[i][2], probs[i][1] >>]
  ELSE probs

\* predict_proba on the rows of the URLs in frame
RawProba(m, frame) ==
  [i \in DOMAIN frame |->
     LET raw == RowProba(m.classifier.kind, frame[i])
     IN  << raw, ONE - raw >>]

\* the loop when a single row does not count as constant
IsConstant_ManyRowsOnly(raw_probs) ==
  /\ Len(raw_probs) > 1
  /\ \A i \in 2..Len(raw_probs) : ~(Abs(raw_probs[i][1] - raw_probs[1][1]) > 10)

\* the loop of predict over raw_probs[1:], with its tolerance of 0.0001
IsConstant(raw_probs) ==
  \A i \in 2..Len(raw_probs) : ~(Abs(raw_probs[i][1] - raw_probs[1][1]) > 10)

\* what predict returns: the backend that produced it, the predictions and
\* the probabilities, one per row
PredictOutput(backend, probabilities) ==
  [raised |-> "none", backend |-> backend,
   predictions |-> [i \in DOMAIN probabilities |->
                      IF probabilities[i][1] >= THRESHOLD THEN 0 ELSE 1],
   probabilities |-> probabilities]

\* MLModel.predict on the rows of the URLs in frame; scores holds, for each
\* row, the score _rule_based_fallback would give it
ml_predict(m, frame, scores) ==
  LET fallback ==
        PredictOutput("rule_based_fallback",
                      [i \in DOMAIN frame |-> << scores[i], ONE - scores[i] >>])
      raw_probs == RawProba(m, frame)
  IN  IF ~is_loaded(m)
      THEN [raised |-> "RuntimeError", backend |-> "none",
            predictions |-> << >>, probabilities |-> << >>]
      ELSE IF m.classifier.kind = "raises" THEN fallback
      ELSE IF IsConstant(raw_probs) THEN fallback
      ELSE PredictOutput("model",
                         normalize_probabilities(m.classifier.classes, raw_probs))

NoOutput ==
  [raised |-> "none", backend |-> "none", predictions |-> << >>,
   probabilities |-> << >>]

\* the singleton before its constructor ran, with the files on disk and the
\* object the model pickles hold
Unloaded(files, classifier) ==
  [pc |-> "constructed", files |-> files, classifier |-> classifier,
   _model |-> "none", _feature_names |-> "none", _model_loaded |-> FALSE,
   _model_type |-> "default", loads |-> << >>, ret |-> "none",
   mode |-> "none", frame |-> << >>, out |-> NoOutput, renormalized |-> << >>]

\* ml_model = MLModel(): __init__ loads the compatible model
Constructed(files, classifier) ==
  [LoadModelFields(Unloaded(files, classifier), "compatible")
     EXCEPT !.ret = "none", !.loads = << >>]

\* every file in place, a classifier that separates its inputs
AllFilesOk == [f \in ModelFiles |-> "ok"]

DefaultClassifier == [classes |-> << 0, 1 >>, kind |-> "varying"]

\* the singleton is not looked at
NoModel == [Constructed(AllFilesOk, DefaultClassifier) EXCEPT !.pc = "none"]

\* lifespan of main.py: the model is loaded at startup if it is not yet
lifespan ==
  /\ ml.pc = "constructed"
  /\ ml' = [(IF is_loaded(ml) THEN ml
             ELSE LoadModelFields(ml, "compatible"))
              EXCEPT !.pc = "started"]
  /\ model_loaded' = is_loaded(ml')
  /\ UNCHANGED << now, prediction_cache, explanation_cache, req, background,
                  started, lastReturn, lastFetch >>
  /\ UNCHANGED domainVars
  /\ UNCHANGED batchVars
  /\ UNCHANGED threat

\* ml_model.load_model(mode) called on the running service
load_model(mode) ==
  /\ ml.pc = "started"
  /\ ml' = [LoadModelFields(ml, mode) EXCEPT !.pc = "loaded", !.mode = mode]
  /\ model_loaded' = is_loaded(ml')
  /\ UNCHANGED << now, prediction_cache, explanation_cache, req, background,
                  started, lastReturn, lastFetch >>
  /\ UNCHANGED domainVars
  /\ UNCHANGED batchVars
  /\ UNCHANGED threat

\* ml_model.predict(features) on the rows of the URLs in frame
predict(frame, scores) ==
  /\ ml.pc = "constructed"
  /\ ml' = [ml EXCEPT !.pc = "predicted", !.frame = frame,
                      !.out = ml_predict(ml, frame, scores)]
  /\ UNCHANGED orchestratorVars
  /\ UNCHANGED domainVars
  /\ UNCHANGED batchVars
  /\ UNCHANGED threat

\* the probabilities predict returned are handed to
\* _normalize_probabilities once more
normalize_again ==
  /\ ml.pc = "predicted"
  /\ ml.out.raised = "none"
  /\ ml' = [ml EXCEPT !.pc = "renormalized",
                      !.renormalized =
                        normalize_probabilities(ml.classifier.classes,
                                                ml.out.probabilities)]
  /\ UNCHANGED orchestratorVars
  /\ UNCHANGED domainVars
  /\ UNCHANGED batchVars
  /\ UNCHANGED threat

\* get_shap_explanation with a shap_values entry in what it returns
get_shap_explanation_WithShapValues(m) ==
  [top_features |-> "contributions", method |-> "shap",
   model_type |-> m._model_type, shap_values |-> << 80000 >>]

\* get_shap_explanation when it returns: the rule-based explanation of a
\* broken model, or else the SHAP contributions or the feature importances;
\* each is a dict of top_features, method and model_type
get_shap_explanation(m) ==
  [top_features |-> "contributions",
   method |-> IF model_is_broken(m) THEN "rule_based" ELSE "shap",
   model_type |-> m._model_type]

\* shap_explanation.get("shap_values"): the entry, or None (here the empty
\* list, which is as false as None)
ShapValuesOf(shap_explanation) ==
  IF "shap_values" \in DOMAIN shap_explanation
  THEN shap_explanation.shap_values ELSE << >>

\* nothing outside the orchestrator and the analyzer is running
SideOff == threat = NoThreat /\ ml = NoModel

\* the risk scores predict_single_url hands to calculate_threat_index, in
\* units of 1/ONE: the mean absolute SHAP value capped at 1 ...
ShapRisk(shap_values) ==
  IF Len(shap_values) = 0 THEN 0
  ELSE Min2(ONE, SumSeq([i \in DOMAIN shap_values |-> Abs(shap_values[i])])
                   \div Len(shap_values))

\* ... 0.8 for a failed check, 0.6 for a site that is not accessible, 0.4
\* for one without valid TLS ...
AvailRisk(availability) ==
  IF ~availability.present THEN 0
  ELSE IF availability.status = "error" THEN 80000
  ELSE IF availability.is_accessible # "True" THEN 60000
  ELSE IF availability.ssl_valid # "True" THEN 40000
  ELSE 0

\* ... a fifth per blocking country, capped at 1, and at least 0.5 for a
\* proxy URL ...
GeoRisk(geo_analysis) ==
  LET blocks == Min2(ONE, (geo_analysis.total_blocks * ONE) \div 5)
  IN  IF ~geo_analysis.present THEN 0
      ELSE IF geo_analysis.is_proxy_url THEN Max2(blocks, 50000)
      ELSE blocks

\* ... and 0.9, 0.6 or 0.3 by the confidence of the proxy detection
ProxyRisk(geo_analysis) ==
  IF ~(geo_analysis.present /\ geo_analysis.is_proxy_url) THEN 0
  ELSE IF geo_analysis.proxy_confidence = "high" THEN 90000
  ELSE IF geo_analysis.proxy_confidence = "medium" THEN 60000
  ELSE 30000

\* Availability(**availability): the fields the response model keeps
AvailabilityModel(availability) ==
  [present |-> availability.present,
   is_accessible |-> availability.is_accessible,
   status_code |-> availability.status_code,
   ssl_valid |-> availability.ssl_valid]

NoVerdict == Verdict(FALSE, "none", << >>, 0)

NoDecision ==
  [prediction |-> "none", final_confidence |-> 0, risk_level |-> "none",
   summary |-> "none"]

\* a slot with no call in flight
IdleRequest ==
  [pc |-> "idle", url |-> << >>, include_explanation |-> FALSE,
   skip_external_checks |-> FALSE, verdict |-> NoVerdict,
   cls |-> ml_model_predict(0), ml_overridden |-> FALSE,
   after_override |-> "none", d |-> NoDecision,
   availability |-> NoAvailability, task |-> FALSE, task_d |-> NoDecision,
   item |-> 0, shap_values |-> << >>]

NoResponse ==
  [url |-> << >>, prediction |-> "none", confidence |-> 0,
   phishing_probability |-> 0, legitimate_probability |-> 0,
   risk_level |-> "none", summary |-> "none",
   availability |-> AvailabilityModel(NoAvailability),
   geo_analysis |-> NoGeo,
   threat_data |-> NoThreatData,
   metadata |-> [url_hash |-> << >>, domain_analysis |-> NoVerdict,
                 ml_overridden |-> FALSE, domain_boost |-> 0,
                 ml_confidence |-> 0, from_cache |-> FALSE,
                 include_explanation |-> FALSE, has_summary |-> FALSE,
                 has_availability |-> FALSE]]

NoReturn ==
  [status |-> 0, url |-> << >>, include_explanation |-> FALSE,
   skip_external_checks |-> FALSE, cache_hit |-> FALSE,
   cls |-> ml_model_predict(0), after_override |-> "none",
   response |-> NoResponse]

NoFetch == [url_hash |-> << >>, status |-> "none", ready |-> FALSE]

\* what predict_batch returns before it has returned
NoBatchResponse ==
  [total |-> 0, successful |-> 0, failed |-> 0, cache_hits |-> 0,
   cache_misses |-> 0, concurrency_limit |-> 0, results |-> << >>,
   errors |-> << >>]

\* no predict_batch call
NoBatch ==
  [pc |-> "none", urls |-> << >>, include_explanation |-> FALSE,
   results |-> << >>, response |-> NoBatchResponse]

\* no semaphore
NoGate == [pc |-> "none", size |-> 0, value |-> 0, waiting |-> 0,
           in_flight |-> 0, finished |-> 0]

\* ------------------------------------------------------------------------
\* predict_single_url
\* ------------------------------------------------------------------------

\* step 9: PredictionResponse(...); q is the call's locals, d its decision
\* and geo_analysis its geo dict
BuildResponse(q, d, geo_analysis) ==
  [url |-> q.url,
   prediction |-> d.prediction,
   confidence |-> Round4(d.final_confidence),
   phishing_probability |-> Round4(q.cls.phishing_prob),
   legitimate_probability |-> Round4(q.cls.legit_prob),
   risk_level |-> d.risk_level,
   summary |-> d.summary,
   availability |-> AvailabilityModel(q.availability),
   geo_analysis |-> geo_analysis,
   threat_data |->
     calculate_threat_index(d.final_confidence, ShapRisk(q.shap_values),
                            AvailRisk(q.availability), GeoRisk(geo_analysis),
                            ProxyRisk(geo_analysis), d.prediction),
   metadata |-> [url_hash |-> get_url_hash(q.url),
                 domain_analysis |-> q.verdict,
                 ml_overridden |-> q.ml_overridden,
                 domain_boost |-> q.verdict.boost,
                 ml_confidence |->
                   Round4(Max2(q.cls.phishing_prob, q.cls.legit_prob)),
                 from_cache |-> FALSE,
                 include_explanation |-> q.include_explanation,
                 has_summary |-> d.summary # "none",
                 has_availability |-> q.availability.present]]

\* what the endpoint wrapper hands back for call q
Returned(q, status, cache_hit, response) ==
  [status |-> status, url |-> q.url,
   include_explanation |-> q.include_explanation,
   skip_external_checks |-> q.skip_external_checks,
   cache_hit |-> cache_hit, cls |-> q.cls,
   after_override |-> q.after_override, response |-> response]

\* asyncio.gather(..., return_exceptions=True): what the call of item
\* returned or raised takes the item's place in the results of batch b; a
\* call that is not a batch's (item 0) leaves the batch alone
Gathered(b, item, ret) ==
  IF item < 1 THEN b ELSE [b EXCEPT !.results[item] = ret]

\* the item of the call explain_prediction makes
ExplainItem == -1

\* no POST /predict/explain call
NoExplain ==
  [pc |-> "idle", url |-> << >>, status |-> 0, from_cache |-> FALSE,
   returned |-> "none", prediction |-> NoResponse]

\* explain_prediction calls predict_single_url(url) and the call reaches an
\* await
Calling(e, item, url) ==
  IF item # ExplainItem THEN e
  ELSE [NoExplain EXCEPT !.pc = "predicting", !.url = url]

\* prediction = await predict_single_url(url) in explain_prediction: the
\* call returns the prediction, or it raises and explain_prediction answers
\* with the status of the exception
Awaited(e, item, ret) ==
  IF item # ExplainItem THEN e
  ELSE IF ret.status = 200
  THEN [NoExplain EXCEPT !.pc = "explaining", !.url = ret.url,
                         !.prediction = ret.response]
  ELSE [NoExplain EXCEPT !.pc = "done", !.url = ret.url,
                         !.status = ret.status]

\* the task handed to background_tasks.add_task
BackgroundTask(q, d) ==
  [url |-> q.url, url_hash |-> get_url_hash(q.url),
   prediction |-> d.prediction, confidence |-> d.final_confidence]

\* From the end of the geo block to the return: signal override, threat
\* inputs, response, cache store.  An exception on the way leaves
\* predict_single_url, the endpoint answers 500 and the queued background
\* task is not run.
Finish(r, q, geo_analysis) ==
  LET d == SignalOverride(q.d, q.verdict, q.url, q.availability)
      response == BuildResponse(q, d, geo_analysis)
  IN  /\ req' = [req EXCEPT ![r] = IdleRequest]
      /\ IF GeoRiskRaises(geo_analysis) \/ ResponseRaises(q.availability)
         THEN /\ lastReturn' = Returned(q, 500, FALSE, NoResponse)
              /\ batch' = Gathered(batch, q.item, Returned(q, 500, FALSE, NoResponse))
              /\ explain' = Awaited(explain, q.item, Returned(q, 500, FALSE, NoResponse))
              /\ UNCHANGED << prediction_cache, background >>
         ELSE /\ prediction_cache' =
                   CacheSet(prediction_cache, q.url, response,
                            ChooseTTL(d.prediction, d.final_confidence),
                            PREDICTION_DEFAULT_TTL, now)
              /\ lastReturn' = Returned(q, 200, FALSE, response)
              /\ batch' = Gathered(batch, q.item, Returned(q, 200, FALSE, response))
              /\ explain' = Awaited(explain, q.item, Returned(q, 200, FALSE, response))
              /\ background' =
                   IF q.task THEN background \cup {BackgroundTask(q, q.task_d)}
                   ELSE background

\* the URLs as predict_single_url sees them
AllUrls ==
  {Strip(u) : u \in RequestUrls \cup CacheUrls \cup EndToEndUrls \cup ErrorUrls
                   \cup ConfidenceUrls}

\* analyze_domain_risk on those URLs, computed once
DomainVerdictTable == [u \in AllUrls |-> analyze_domain_risk(u)]

AllVerdicts == UNION {DomainVerdictTable[u] : u \in AllUrls}

\* steps 2 and 3 of predict_single_url: the status of the HTTPException
\* raised for url, 0 when none is
ErrorTerminal_LoadedFirst(url) ==
  IF ~model_loaded THEN 503
  ELSE IF ~is_valid_url(url) THEN 400
  ELSE 0

ErrorTerminal(url) ==
  IF ~is_valid_url(url) THEN 400
  ELSE IF ~model_loaded THEN 503
  ELSE 0

\* predict_single_url from its entry to its first await, in slot r;
\* has_tasks tells whether background_tasks was passed, item is the place
\* of the URL in the batch that makes the call (0 for a call of POST
\* /predict), p is the score the fallback engine produces and v the verdict
\* of analyze_domain_risk
predict_single_url(r, raw, include_explanation, skip_external_checks, has_tasks, item, p, v) ==
  LET url    == Strip(raw)
      cached == CacheGet(prediction_cache, url, now)
      q0     == [IdleRequest EXCEPT
                   !.url = url,
                   !.include_explanation = include_explanation,
                   !.skip_external_checks = skip_external_checks,
                   !.item = item]
      cls    == ml_model_predict(p)
      ml_confidence == Max2(cls.phishing_prob, cls.legit_prob)
      o      == OverrideDecision(v, cls, AdjustConfidence(ml_confidence, v.boost))
      d      == [prediction |-> o.prediction,
                 final_confidence |-> o.final_confidence,
                 risk_level |-> RiskLevel(o.prediction, o.final_confidence),
                 summary |-> "none"]
      fast   == [d EXCEPT !.summary = "fast_template"]
      q      == [q0 EXCEPT !.verdict = v, !.cls = cls,
                           !.ml_overridden = o.ml_overridden,
                           !.after_override = o.prediction,
                           !.d = IF include_explanation THEN d ELSE fast,
                           !.task = has_tasks /\ ~include_explanation,
                           !.task_d = IF include_explanation THEN NoDecision
                                      ELSE fast]
      hit    == Returned(q0, 200, TRUE, prediction_cache[cached.key].value)
      raised == Returned(q0, ErrorTerminal(url), FALSE, NoResponse)
  IN  /\ req[r].pc = "idle"
      /\ v \in DomainVerdictTable[url]
      /\ started' = started + 1
      /\ UNCHANGED << now, model_loaded, explanation_cache, lastFetch, gate >>
      /\ UNCHANGED domainVars
      /\ UNCHANGED sideVars
      /\ IF cached.hit
         THEN /\ lastReturn' = hit
              /\ batch' = Gathered(batch, item, hit)
              /\ explain' = Awaited(explain, item, hit)
              /\ UNCHANGED << prediction_cache, req, background >>
         ELSE IF ErrorTerminal(url) # 0
         THEN /\ lastReturn' = raised
              /\ batch' = Gathered(batch, item, raised)
              /\ explain' = Awaited(explain, item, raised)
              /\ UNCHANGED << prediction_cache, req, background >>
         ELSE IF include_explanation
         THEN /\ req' = [req EXCEPT ![r] = [q EXCEPT !.pc = "explanation"]]
              /\ explain' = Calling(explain, item, url)
              /\ UNCHANGED << prediction_cache, background, lastReturn, batch >>
         ELSE IF ~skip_external_checks
         THEN /\ req' = [req EXCEPT ![r] = [q EXCEPT !.pc = "availability"]]
              /\ explain' = Calling(explain, item, url)
              /\ UNCHANGED << prediction_cache, background, lastReturn, batch >>
         ELSE Finish(r, q, NoGeo)

\* POST /predict with the two toggles (POST /predict/fast is the call with
\* include_explanation = FALSE and skip_external_checks = TRUE): the
\* endpoint passes its background_tasks
StartRequest(r, raw, include_explanation, skip_external_checks, p, v) ==
  predict_single_url(r, raw, include_explanation, skip_external_checks,
                     TRUE, 0, p, v)

\* the await of the synchronous SHAP explanation returns, times out or raises
ExplanationDone(r, outcome) ==
  LET q == req[r]
      summary == IF outcome = "ok" THEN "generated"
                 ELSE IF outcome = "timeout" THEN "timeout_template"
                 ELSE "failure_template"
      shap_values == IF outcome = "ok"
                     THEN ShapValuesOf(get_shap_explanation(ml)) ELSE << >>
      q1 == [q EXCEPT !.d.summary = summary, !.shap_values = shap_values]
  IN  /\ q.pc = "explanation"
      /\ UNCHANGED << now, model_loaded, explanation_cache, lastFetch, started,
                      gate >>
      /\ UNCHANGED domainVars
      /\ UNCHANGED sideVars
      /\ IF ~q.skip_external_checks
         THEN /\ req' = [req EXCEPT ![r] = [q1 EXCEPT !.pc = "availability"]]
              /\ UNCHANGED << prediction_cache, background, lastReturn, batch,
                              explain >>
         ELSE Finish(r, q1, NoGeo)

\* the await of the availability check returns, times out or raises; the
\* risk adjustment follows and the call waits on the geo analysis
AvailabilityDone(r, outcome) ==
  LET q == req[r]
      availability == AvailabilityOf(q.url, outcome)
  IN  /\ q.pc = "availability"
      /\ req' = [req EXCEPT ![r] =
                   [q EXCEPT !.pc = "geo",
                             !.availability = availability,
                             !.d = AvailabilityAdjust(q.d, q.verdict, availability)]]
      /\ UNCHANGED << now, model_loaded, prediction_cache, explanation_cache,
                      background, started, lastReturn, lastFetch >>
      /\ UNCHANGED domainVars
      /\ UNCHANGED sideVars
      /\ UNCHANGED batchVars

\* the await of the geo analysis returns, times out or raises; the call runs
\* to its end
GeoDone(r, outcome) ==
  /\ req[r].pc = "geo"
  /\ UNCHANGED << now, model_loaded, explanation_cache, lastFetch, started,
                  gate >>
  /\ UNCHANGED domainVars
  /\ UNCHANGED sideVars
  /\ Finish(r, req[r], GeoAnalysisOf(outcome))

\* ------------------------------------------------------------------------
\* POST /predict/batch
\* ------------------------------------------------------------------------

\* the batch size limit of predict_batch
MAX_BATCH_SIZE == 100

\* asyncio.Semaphore(20)
BATCH_CONCURRENCY == 20

\* `len(urls) > 100` raises BatchLimitExceeded
BatchAccepted_NoCap(urls) == TRUE

BatchAccepted(urls) == Len(urls) <= MAX_BATCH_SIZE

\* isinstance(result, Exception): the call raised instead of returning
IsException(ret) == ret.status # 200

\* error_msg of an errors entry
ErrorMessage(ret) ==
  IF ret.status = 400 THEN "validator message"
  ELSE IF ret.status = 503 THEN "Service temporarily unavailable"
  ELSE "Processing error"

\* an errors entry that counts positions from one; C16 tells it apart from
\* the code's
ErrorEntry_OneBased(i, urls, ret) ==
  [index |-> i, url |-> urls[i], error |-> ErrorMessage(ret)]

\* the errors entry of the URL at position i of urls (enumerate counts
\* from 0)
ErrorEntry(i, urls, ret) ==
  [index |-> i - 1, url |-> urls[i], error |-> ErrorMessage(ret)]

\* the aggregation loop of predict_batch and the dict it returns
BatchResponse(urls, results) ==
  LET positions == [i \in 1..Len(urls) |-> i]
      Raised(i) == IsException(results[i])
      Succeeded(i) == ~IsException(results[i])
      failed == SelectSeq(positions, Raised)
      ok == SelectSeq(positions, Succeeded)
      successes == [k \in 1..Len(ok) |-> results[ok[k]].response]
      errors == [k \in 1..Len(failed) |->
                   ErrorEntry(failed[k], urls, results[failed[k]])]
      cache_hits ==
        Cardinality({k \in 1..Len(successes) : successes[k].metadata.from_cache})
  IN  [total |-> Len(urls),
       successful |-> Len(successes),
       failed |-> Len(errors),
       cache_hits |-> cache_hits,
       cache_misses |-> Len(successes) - cache_hits,
       concurrency_limit |-> BATCH_CONCURRENCY,
       results |-> successes,
       errors |-> errors]

\* the positions of the batch whose predict_single_url call is in flight
ItemsInFlight ==
  {req[r].item : r \in {x \in DOMAIN req : req[x].pc # "idle"}} \ {0}

\* the positions whose task has not yet taken the semaphore
Unstarted ==
  {i \in 1..Len(batch.urls) : batch.results[i] = NoReturn /\ i \notin ItemsInFlight}

\* The event loop runs the first step of every task gather created, in the
\* order of the URLs, before it hands any I/O completion to a task: every
\* task that can take the semaphore has taken it.
BatchTasksStarted ==
  batch.pc = "running" =>
    (Unstarted = {} \/ Cardinality(ItemsInFlight) >= BATCH_CONCURRENCY)

\* predict_batch from its entry to `await asyncio.gather`
predict_batch(urls, include_explanation) ==
  /\ batch.pc = "none"
  /\ batch' =
       IF BatchAccepted(urls)
       THEN [pc |-> "running", urls |-> urls,
             include_explanation |-> include_explanation,
             results |-> [i \in 1..Len(urls) |-> NoReturn],
             response |-> NoBatchResponse]
       ELSE [NoBatch EXCEPT !.pc = "rejected", !.urls = urls,
                            !.include_explanation = include_explanation]
  /\ UNCHANGED orchestratorVars
  /\ UNCHANGED domainVars
  /\ UNCHANGED sideVars
  /\ UNCHANGED << gate, explain >>

\* process_with_limit for the next URL of the batch: the task takes the
\* semaphore and calls predict_single_url, which runs to its first await
process_with_limit(p, v) ==
  /\ batch.pc = "running"
  /\ Unstarted # {}
  /\ Cardinality(ItemsInFlight) < BATCH_CONCURRENCY
  /\ \E r \in DOMAIN req :
        /\ req[r].pc = "idle"
        /\ \A x \in DOMAIN req : req[x].pc = "idle" => r <= x
        /\ LET i == CHOOSE a \in Unstarted : \A b \in Unstarted : a <= b
           IN  predict_single_url(r, batch.urls[i], batch.include_explanation,
                                  FALSE, FALSE, i, p, v)

\* predict_batch after gather has every result: aggregation and return
predict_batch_return ==
  /\ batch.pc = "running"
  /\ \A i \in 1..Len(batch.urls) : batch.results[i] # NoReturn
  /\ batch' = [batch EXCEPT !.pc = "done",
                            !.response = BatchResponse(batch.urls, batch.results)]
  /\ UNCHANGED orchestratorVars
  /\ UNCHANGED domainVars
  /\ UNCHANGED sideVars
  /\ UNCHANGED << gate, explain >>

\* The semaphore of predict_batch, with the tasks counted instead of named:
\* waiting tasks have not entered `async with semaphore`, in_flight tasks
\* are inside their predict_single_url call, finished tasks have left it.

\* a semaphore that lets every task in; C17 tells it apart from
\* asyncio.Semaphore
CanAcquire_Unlimited(g) == TRUE

\* Semaphore.acquire returns: the counter is above zero
CanAcquire(g) == g.value > 0

\* predict_batch for n URLs up to `await asyncio.gather`: the semaphore and
\* one task per URL
gather_tasks(n) ==
  /\ gate.pc = "none"
  /\ n <= MAX_BATCH_SIZE
  /\ gate' = [pc |-> "running", size |-> n, value |-> BATCH_CONCURRENCY,
              waiting |-> n, in_flight |-> 0, finished |-> 0]
  /\ UNCHANGED orchestratorVars
  /\ UNCHANGED domainVars
  /\ UNCHANGED sideVars
  /\ UNCHANGED << batch, explain >>

\* a task enters `async with semaphore` and calls predict_single_url
semaphore_acquire ==
  /\ gate.pc = "running"
  /\ gate.waiting > 0
  /\ CanAcquire(gate)
  /\ gate' = [gate EXCEPT !.value = @ - 1, !.waiting = @ - 1,
                          !.in_flight = @ + 1]
  /\ UNCHANGED orchestratorVars
  /\ UNCHANGED domainVars
  /\ UNCHANGED sideVars
  /\ UNCHANGED << batch, explain >>

\* the predict_single_url call of a task returns or raises; leaving the
\* `async with` block releases the semaphore either way
semaphore_release(outcome) ==
  /\ gate.pc = "running"
  /\ gate.in_flight > 0
  /\ outcome \in {"returned", "raised"}
  /\ gate' = [gate EXCEPT !.value = @ + 1, !.in_flight = @ - 1,
                          !.finished = @ + 1]
  /\ UNCHANGED orchestratorVars
  /\ UNCHANGED domainVars
  /\ UNCHANGED sideVars
  /\ UNCHANGED << batch, explain >>

\* gather has every result and predict_batch returns
gather_returns ==
  /\ gate.pc = "running"
  /\ gate.finished = gate.size
  /\ gate' = [gate EXCEPT !.pc = "done"]
  /\ UNCHANGED orchestratorVars
  /\ UNCHANGED domainVars
  /\ UNCHANGED sideVars
  /\ UNCHANGED << batch, explain >>

\* ------------------------------------------------------------------------
\* Background explanation, explanation fetch, clock
\* ------------------------------------------------------------------------

\* compute_and_cache_explanation_background for task t: the SHAP call
\* returns, times out or raises; only the first stores the explanation
compute_and_cache_explanation_background(t, outcome) ==
  /\ t \in background
  /\ background' = background \ {t}
  /\ explanation_cache' =
       IF outcome = "ok"
       THEN CacheSet(explanation_cache, t.url,
                     [url |-> t.url, url_hash |-> t.url_hash,
                      prediction |-> t.prediction,
                      confidence |-> t.confidence,
                      explanation |-> "shap", computed_at |-> now],
                     BACKGROUND_TTL, EXPLANATION_DEFAULT_TTL, now)
       ELSE explanation_cache
  /\ UNCHANGED << now, model_loaded, prediction_cache, req, started,
                  lastReturn, lastFetch >>
  /\ UNCHANGED domainVars
  /\ UNCHANGED sideVars
  /\ UNCHANGED batchVars

\* the loop of get_cached_explanation: each key of explanation_cache._cache
\* is handed to explanation_cache.get, which hashes its argument again
ExplanationFound(url_hash) ==
  \E key \in DOMAIN explanation_cache :
     LET got == CacheGet(explanation_cache, key, now)
     IN  /\ got.hit
         /\ explanation_cache[got.key].value.url_hash = url_hash

\* an unexpired explanation computed for url_hash is in the cache
ExplanationReady(url_hash) ==
  \E key \in LiveKeys(explanation_cache, now) :
     explanation_cache[key].value.url_hash = url_hash

\* GET /predict/explanation/{url_hash}
get_cached_explanation(url_hash) ==
  /\ lastFetch' = [url_hash |-> url_hash,
                   status |-> IF ExplanationFound(url_hash) THEN "found"
                              ELSE "pending",
                   ready |-> ExplanationReady(url_hash)]
  /\ UNCHANGED << now, model_loaded, prediction_cache, explanation_cache, req,
                  background, started, lastReturn >>
  /\ UNCHANGED domainVars
  /\ UNCHANGED sideVars
  /\ UNCHANGED batchVars

\* number of clock steps a run takes at most
MaxTicks == 3

\* seconds per clock step
TickSeconds == PREDICTION_DEFAULT_TTL

\* time passes
Tick ==
  /\ now < MaxTicks * TickSeconds
  /\ now' = now + TickSeconds
  /\ UNCHANGED << model_loaded, prediction_cache, explanation_cache, req,
                  background, started, lastReturn, lastFetch >>
  /\ UNCHANGED domainVars
  /\ UNCHANGED sideVars
  /\ UNCHANGED batchVars

\* one call of analyze_domain_risk on the input drawn at the start
AnalyzeDomain ==
  /\ domPc = "call"
  /\ domVerdict' \in IF domUrl \in DomainInputs THEN DomainInputTable[domUrl]
                      ELSE analyze_domain_risk(domUrl)
  /\ domPc' = "done"
  /\ UNCHANGED << domUrl, domVariant, domVariantVerdict >>
  /\ UNCHANGED orchestratorVars
  /\ UNCHANGED batchVars
  /\ UNCHANGED sideVars

\* a second call of analyze_domain_risk, on domVariant; it may run in another
\* interpreter process, whose set iteration order is its own
AnalyzeVariant ==
  /\ domPc = "done"
  /\ domVariant # << >>
  /\ domVariantVerdict' \in analyze_domain_risk(domVariant)
  /\ domPc' = "both"
  /\ UNCHANGED << domUrl, domVerdict, domVariant >>
  /\ UNCHANGED orchestratorVars
  /\ UNCHANGED batchVars
  /\ UNCHANGED sideVars

\* ------------------------------------------------------------------------
\* POST /predict/explain
\* ------------------------------------------------------------------------

\* ExplanationResponse(...) of explain_prediction; the list of feature
\* contributions is left out
ExplanationResponse(url, prediction, v, explanation_method) ==
  [url |-> url,
   prediction |-> prediction.prediction,
   confidence |-> prediction.confidence,
   explanation_method |-> explanation_method,
   base_value |-> ONE \div 2,
   summary |-> prediction.summary,
   availability |-> prediction.availability,
   metadata |-> [domain_analysis |-> v, domain_boost |-> v.boost,
                 prediction_metadata |-> prediction.metadata]]

\* a value of the explanation cache is an ExplanationResponse and not the
\* dict of the background task
IsExplanationResponse(value) == "explanation_method" \in DOMAIN value

\* explain_prediction from its entry to its first await, in slot r: a cached
\* value is returned as it is, and the response model of the endpoint
\* refuses a value without the required fields of ExplanationResponse
\* (status 500); otherwise predict_single_url(url) is called with its
\* defaults
explain_prediction(r, raw, p, v) ==
  LET url    == Strip(raw)
      cached == CacheGet(explanation_cache, url, now)
      value  == explanation_cache[cached.key].value
      ok     == IsExplanationResponse(value)
  IN  /\ explain.pc \in {"idle", "done"}
      /\ IF cached.hit
         THEN /\ explain' =
                   [NoExplain EXCEPT
                      !.pc = "done", !.url = url, !.from_cache = TRUE,
                      !.returned = IF ok THEN "ExplanationResponse"
                                   ELSE "background_payload",
                      !.status = IF ok THEN 200 ELSE 500]
              /\ UNCHANGED orchestratorVars
              /\ UNCHANGED domainVars
              /\ UNCHANGED sideVars
              /\ UNCHANGED << batch, gate >>
         ELSE predict_single_url(r, raw, TRUE, FALSE, FALSE, ExplainItem, p, v)

\* the explanation_method explain_prediction ends with: none is computed
\* for a strongly trusted domain, the method the explanation names
\* otherwise, "timeout" when the wait_for of 2 s expires
\* (get_feature_importance returns a dict, which cannot be sliced), and
\* "fallback" when the explanation raises
ExplanationMethod(v, outcome) ==
  IF v.is_whitelisted /\ v.boost > 2 THEN "unknown"
  ELSE IF outcome = "ok" THEN "shap"
  ELSE IF outcome = "timeout" THEN "timeout"
  ELSE "fallback"

\* explain_prediction from the return of predict_single_url to its own:
\* analyze_domain_risk, the explanation, the response and the cache store.
\* For a strongly trusted domain the code takes these steps without
\* yielding after the prediction; here they are a step of their own.
explain_prediction_return(v, outcome) ==
  LET response ==
        ExplanationResponse(explain.url, explain.prediction, v,
                            ExplanationMethod(v, outcome))
  IN  /\ explain.pc = "explaining"
      /\ v \in DomainVerdictTable[explain.url]
      /\ explanation_cache' =
           CacheSet(explanation_cache, explain.url, response, BACKGROUND_TTL,
                    EXPLANATION_DEFAULT_TTL, now)
      /\ explain' = [explain EXCEPT !.pc = "done", !.status = 200,
                                    !.returned = "ExplanationResponse"]
      /\ UNCHANGED << now, model_loaded, prediction_cache, req, background,
                      started, lastReturn, lastFetch >>
      /\ UNCHANGED domainVars
      /\ UNCHANGED sideVars
      /\ UNCHANGED << batch, gate >>

\* ------------------------------------------------------------------------
\* Specifications
\* ------------------------------------------------------------------------

\* requests received in a run of the pipeline specification
MaxRequests == 1

\* requests received in a run of the cache specification
MaxCacheRequests == 2

\* calls of predict_single_url in flight at once in the cache specification
MaxInFlight == 2

InitWith(slots) ==
  /\ now = 0
  /\ model_loaded \in BOOLEAN
  /\ prediction_cache = EmptyCache
  /\ explanation_cache = EmptyCache
  /\ req = [r \in 1..slots |-> IdleRequest]
  /\ background = {}
  /\ started = 0
  /\ lastReturn = NoReturn
  /\ lastFetch = NoFetch
  /\ domUrl = << >>
  /\ domVerdict = NoVerdict
  /\ domPc = "off"
  /\ domVariant = << >>
  /\ domVariantVerdict = NoVerdict
  /\ batch = NoBatch
  /\ explain = NoExplain
  /\ gate = NoGate
  /\ SideOff

\* the pipeline: requests one after the other, every outcome of every
\* sub-step
Init == InitWith(1)

Next ==
  \/ /\ started < MaxRequests
     /\ \E r \in DOMAIN req, raw \in RequestUrls, ie \in BOOLEAN,
           sk \in BOOLEAN, p \in Scores, v \in AllVerdicts :
           StartRequest(r, raw, ie, sk, p, v)
  \/ \E r \in DOMAIN req, o \in ExplanationOutcomes : ExplanationDone(r, o)
  \/ \E r \in DOMAIN req, o \in AvailabilityOutcomes : AvailabilityDone(r, o)
  \/ \E r \in DOMAIN req, o \in GeoOutcomes : GeoDone(r, o)

Spec == Init /\ [][Next]_vars

\* the caches: concurrent requests, the clock, the background task and the
\* explanation fetch
InitCache == InitWith(MaxInFlight) /\ model_loaded

NextCache ==
  \/ \E r \in DOMAIN req, raw \in CacheUrls, m \in CacheModes,
        p \in CacheScores, v \in AllVerdicts :
        started < MaxCacheRequests
          /\ StartRequest(r, raw, m.include_explanation,
                          m.skip_external_checks, p, v)
  \/ \E r \in DOMAIN req : ExplanationDone(r, "ok")
  \/ \E r \in DOMAIN req : AvailabilityDone(r, [kind |-> "success", status_code |-> 200])
  \/ \E r \in DOMAIN req : GeoDone(r, "ok")
  \/ \E t \in background, o \in ExplanationOutcomes :
        compute_and_cache_explanation_background(t, o)
  \/ \E u \in CacheUrls : get_cached_explanation(get_url_hash(u))
  \/ Tick

SpecCache == InitCache /\ [][NextCache]_vars

\* steps 5 of predict_single_url on the end-to-end URLs, computed once: the
\* scores of the fallback engine under every feature-name list
ClassifierScoreTable ==
  [u \in {Strip(raw) : raw \in EndToEndUrls} |->
     UNION {FallbackScores(u, fn) : fn \in FeatureNameLists}]

\* the pipeline end to end: the classifier's score is the one the fallback
\* engine computes from the URL's features
InitEndToEnd == InitWith(1)

NextEndToEnd ==
  \/ \E r \in DOMAIN req, raw \in EndToEndUrls, ie \in BOOLEAN, sk \in BOOLEAN :
        \E p \in ClassifierScoreTable[Strip(raw)],
           v \in DomainVerdictTable[Strip(raw)] :
           started < MaxRequests /\ StartRequest(r, raw, ie, sk, p, v)
  \/ \E r \in DOMAIN req, o \in ExplanationOutcomes : ExplanationDone(r, o)
  \/ \E r \in DOMAIN req, o \in AvailabilityOutcomes : AvailabilityDone(r, o)
  \/ \E r \in DOMAIN req, o \in GeoOutcomes : GeoDone(r, o)

SpecEndToEnd == InitEndToEnd /\ [][NextEndToEnd]_vars

\* most URLs in a batch whose URLs go through the pipeline
MaxBatch == 2

\* URLs of the batch specification: two valid ones and one without a scheme
BatchUrls == { URL_GOOGLE, URL_EXAMPLE_HTTP, URL_NO_SCHEME }

\* a batch one URL over the limit
OversizedBatch == [i \in 1..(MAX_BATCH_SIZE + 1) |-> URL_GOOGLE]

\* a batch at the limit, of URLs the validator rejects
FullBatch == [i \in 1..MAX_BATCH_SIZE |-> URL_NO_SCHEME]

Batches ==
  UNION {[1..n -> BatchUrls] : n \in 0..MaxBatch}
    \cup {OversizedBatch, FullBatch}

BatchScores == { 30000 }

BatchAvailabilityOutcomes == { [kind |-> "success", status_code |-> 200] }

\* the geo analysis returns, or its wait_for times out, the geo dict holds
\* no proxy_detection and the call raises
BatchGeoOutcomes == { "ok", "wait_for_timeout" }

\* POST /predict/batch, after at most MaxRequests calls of POST
\* /predict/fast
InitBatch == InitWith(MaxBatch)

NextBatch ==
  \/ \E r \in DOMAIN req, raw \in BatchUrls, p \in BatchScores, v \in AllVerdicts :
        /\ started < MaxRequests
        /\ batch.pc = "none"
        /\ StartRequest(r, raw, FALSE, TRUE, p, v)
  \/ \E urls \in Batches, ie \in BOOLEAN : predict_batch(urls, ie)
  \/ \E p \in BatchScores, v \in AllVerdicts : process_with_limit(p, v)
  \/ \E r \in DOMAIN req : BatchTasksStarted /\ ExplanationDone(r, "ok")
  \/ \E r \in DOMAIN req, o \in BatchAvailabilityOutcomes :
        BatchTasksStarted /\ AvailabilityDone(r, o)
  \/ \E r \in DOMAIN req, o \in BatchGeoOutcomes :
        BatchTasksStarted /\ GeoDone(r, o)
  \/ predict_batch_return

SpecBatch == InitBatch /\ [][NextBatch]_vars

\* batch sizes of the semaphore specification: none, one, the semaphore's
\* size, one more, and the batch limit
BatchSizes ==
  {0, 1, BATCH_CONCURRENCY, BATCH_CONCURRENCY + 1, MAX_BATCH_SIZE}

\* the semaphore of one predict_batch call; every await inside
\* predict_single_url is bounded by a wait_for timeout and the event loop
\* runs every task that is ready, so a step that stays possible is taken
InitBatchLimit == InitWith(1) /\ model_loaded

NextBatchLimit ==
  \/ \E n \in BatchSizes : gather_tasks(n)
  \/ semaphore_acquire
  \/ \E o \in {"returned", "raised"} : semaphore_release(o)
  \/ gather_returns

SpecBatchLimit ==
  InitBatchLimit /\ [][NextBatchLimit]_vars /\ WF_vars(NextBatchLimit)

\* the pipeline on the URLs the validator refuses and on one it accepts,
\* with and without a loaded classifier
InitErrors == InitWith(1)

NextErrors ==
  \/ \E r \in DOMAIN req, raw \in ErrorUrls, ie \in BOOLEAN, sk \in BOOLEAN,
        p \in Scores, v \in AllVerdicts :
        started < MaxRequests /\ StartRequest(r, raw, ie, sk, p, v)
  \/ \E r \in DOMAIN req, o \in ExplanationOutcomes : ExplanationDone(r, o)
  \/ \E r \in DOMAIN req, o \in AvailabilityOutcomes : AvailabilityDone(r, o)
  \/ \E r \in DOMAIN req, o \in GeoOutcomes : GeoDone(r, o)

SpecErrors == InitErrors /\ [][NextErrors]_vars

\* the domain analyzer on its own
InitDomain ==
  /\ now = 0
  /\ model_loaded = TRUE
  /\ prediction_cache = EmptyCache
  /\ explanation_cache = EmptyCache
  /\ req = [r \in 1..1 |-> IdleRequest]
  /\ background = {}
  /\ started = 0
  /\ lastReturn = NoReturn
  /\ lastFetch = NoFetch
  /\ domUrl \in DomainInputs \cup TyposquatInputs
  /\ domVerdict = NoVerdict
  /\ domPc = "call"
  /\ domVariant = << >>
  /\ domVariantVerdict = NoVerdict
  /\ batch = NoBatch
  /\ explain = NoExplain
  /\ gate = NoGate
  /\ SideOff

NextDomain == AnalyzeDomain

SpecDomain == InitDomain /\ [][NextDomain]_vars

\* no request in flight, nothing cached: the state the analyzer-only
\* specifications leave the orchestrator in
OrchestratorOff ==
  /\ now = 0
  /\ model_loaded = TRUE
  /\ prediction_cache = EmptyCache
  /\ explanation_cache = EmptyCache
  /\ req = [r \in 1..1 |-> IdleRequest]
  /\ background = {}
  /\ started = 0
  /\ lastReturn = NoReturn
  /\ lastFetch = NoFetch
  /\ batch = NoBatch
  /\ explain = NoExplain
  /\ gate = NoGate

\* the analyzer on a URL and on a differently written URL of the same host
InitNormalize ==
  /\ OrchestratorOff
  /\ SideOff
  /\ domUrl \in NormalizeInputs
  /\ domVariant \in VariantsOf(domUrl)
  /\ domVerdict = NoVerdict
  /\ domVariantVerdict = NoVerdict
  /\ domPc = "call"

NextNormalize == AnalyzeDomain \/ AnalyzeVariant

SpecNormalize == InitNormalize /\ [][NextNormalize]_vars

\* the analyzer called twice on the same URL
InitDeterminism ==
  /\ OrchestratorOff
  /\ SideOff
  /\ domUrl \in DeterminismInputs
  /\ domVariant = domUrl
  /\ domVerdict = NoVerdict
  /\ domVariantVerdict = NoVerdict
  /\ domPc = "call"

NextDeterminism == AnalyzeDomain \/ AnalyzeVariant

SpecDeterminism == InitDeterminism /\ [][NextDeterminism]_vars

\* the analyzer is not running
DomainOff ==
  /\ domUrl = << >>
  /\ domVerdict = NoVerdict
  /\ domPc = "off"
  /\ domVariant = << >>
  /\ domVariantVerdict = NoVerdict

\* values of a risk argument, in units of 1/ONE: below the range, its ends,
\* inside it and above it; each is a binary fraction, so that the float
\* arithmetic of the code is exact on them
ThreatValues == { -50000, 0, 12500, 50000, 100000, 150000 }

\* calculate_threat_index on its own, on every combination of those values
InitThreat ==
  /\ OrchestratorOff
  /\ DomainOff
  /\ ml = NoModel
  /\ threat \in {ThreatCall(c, s, a, g, x, l) :
                   c \in ThreatValues, s \in ThreatValues, a \in ThreatValues,
                   g \in ThreatValues, x \in ThreatValues,
                   l \in {"phishing", "legitimate"}}

NextThreat == CalculateThreatIndex

SpecThreat == InitThreat /\ [][NextThreat]_vars

\* the modes load_model is called with: those of MODEL_MAP and one that is
\* not in it
LoadModes == DOMAIN MODEL_MAP \cup { "production" }

\* the model loader: the service starts on every state of the model files,
\* load_model is called once with some mode, and POST /predict/fast is
\* called at any time after the start
InitLoad ==
  /\ now = 0
  /\ ml \in {Constructed(files, DefaultClassifier) :
               files \in [ModelFiles -> FileStates]}
  /\ model_loaded = is_loaded(ml)
  /\ prediction_cache = EmptyCache
  /\ explanation_cache = EmptyCache
  /\ req = [r \in 1..1 |-> IdleRequest]
  /\ background = {}
  /\ started = 0
  /\ lastReturn = NoReturn
  /\ lastFetch = NoFetch
  /\ batch = NoBatch
  /\ explain = NoExplain
  /\ gate = NoGate
  /\ DomainOff
  /\ threat = NoThreat

NextLoad ==
  \/ lifespan
  \/ \E mode \in LoadModes : load_model(mode)
  \/ \E r \in DOMAIN req, v \in DomainVerdictTable[Strip(URL_GOOGLE)] :
        /\ ml.pc \in {"started", "loaded"}
        /\ started < MaxRequests
        /\ StartRequest(r, URL_GOOGLE, FALSE, TRUE, 30000, v)

SpecLoad == InitLoad /\ [][NextLoad]_vars

\* most rows in the frame of a predict call
MaxRows == 2

\* the frames of a predict call: the rows of the end-to-end URLs
Frames ==
  UNION {[1..n -> {Strip(raw) : raw \in EndToEndUrls}] : n \in 1..MaxRows}

\* the scores _rule_based_fallback can give the rows of a frame
FrameScores(frame) ==
  {s \in [DOMAIN frame -> UNION {ClassifierScoreTable[u] : u \in DOMAIN ClassifierScoreTable}] :
     \A i \in DOMAIN frame : s[i] \in ClassifierScoreTable[frame[i]]}

\* the files of the compatible model in place, or its model file missing
PredictFiles ==
  { AllFilesOk,
    [AllFilesOk EXCEPT ![MODEL_MAP["compatible"].model_filename] = "missing"] }

\* MLModel.predict on its own: every classifier, on frames of one and of
\* more rows
InitModel ==
  /\ OrchestratorOff
  /\ DomainOff
  /\ threat = NoThreat
  /\ ml \in {Constructed(files, [classes |-> c, kind |-> k]) :
               files \in PredictFiles, c \in ClassOrders, k \in ClassifierKinds}

NextModel ==
  \/ \E frame \in Frames : \E scores \in FrameScores(frame) :
        predict(frame, scores)
  \/ normalize_again

SpecModel == InitModel /\ [][NextModel]_vars

\* the scores _rule_based_fallback can give the row of each of the
\* confidence URLs, under every feature-name list
ConfidenceScoreTable ==
  [u \in {Strip(raw) : raw \in ConfidenceUrls} |->
     UNION {FallbackScores(u, fn) : fn \in FeatureNameLists}]

\* step 5 of predict_single_url: ml_model.predict on the one-row frame of
\* url, and the phishing probability of that row
PredictedProba(url, score) ==
  ml_predict(ml, << url >>, << score >>).probabilities[1][1]

\* the pipeline with the probabilities MLModel.predict returns for a loaded
\* classifier that separates its inputs
InitConfidence ==
  /\ InitWith(1)
  /\ model_loaded

NextConfidence ==
  \/ \E r \in DOMAIN req, raw \in ConfidenceUrls, ie \in BOOLEAN, sk \in BOOLEAN :
        \E score \in ConfidenceScoreTable[Strip(raw)],
           v \in DomainVerdictTable[Strip(raw)] :
           /\ started < MaxRequests
           /\ StartRequest(r, raw, ie, sk, PredictedProba(Strip(raw), score), v)
  \/ \E r \in DOMAIN req, o \in ExplanationOutcomes : ExplanationDone(r, o)
  \/ \E r \in DOMAIN req, o \in AvailabilityOutcomes : AvailabilityDone(r, o)
  \/ \E r \in DOMAIN req, o \in GeoOutcomes : GeoDone(r, o)

SpecConfidence == InitConfidence /\ [][NextConfidence]_vars

\* URLs of the explanation specification: one URL, written in two ways
ExplainUrls == { URL_EXAMPLE_HTTP, URL_EXAMPLE_PADDED }

\* fast predictions, their background explanation tasks and POST
\* /predict/explain, for the same URL
InitExplain == InitWith(MaxInFlight) /\ model_loaded

NextExplain ==
  \/ \E r \in DOMAIN req, raw \in ExplainUrls, p \in CacheScores :
        \E v \in DomainVerdictTable[Strip(raw)] :
           /\ started < MaxCacheRequests
           /\ StartRequest(r, raw, FALSE, TRUE, p, v)
  \/ \E t \in background, o \in ExplanationOutcomes :
        compute_and_cache_explanation_background(t, o)
  \/ \E r \in DOMAIN req, raw \in ExplainUrls, p \in CacheScores :
        \E v \in DomainVerdictTable[Strip(raw)] :
           /\ \/ started < MaxCacheRequests
              \/ CacheGet(explanation_cache, Strip(raw), now).hit
           /\ explain_prediction(r, raw, p, v)
  \/ \E r \in DOMAIN req, o \in ExplanationOutcomes : ExplanationDone(r, o)
  \/ \E r \in DOMAIN req, o \in AvailabilityOutcomes : AvailabilityDone(r, o)
  \/ \E r \in DOMAIN req, o \in GeoOutcomes : GeoDone(r, o)
  \/ \E v \in AllVerdicts, o \in ExplanationOutcomes :
        explain_prediction_return(v, o)

SpecExplain == InitExplain /\ [][NextExplain]_vars

\* the threat figures of the orchestrator: every label, both endpoints'
\* modes, and the outcomes of the three awaits that move the risk scores
PipelineUrls == { URL_GOOGLE, URL_LEECODE, URL_EXAMPLE_HTTPS }

PipelineScores == { 30000, 95004 }

PipelineAvailability ==
  { [kind |-> "success", status_code |-> 200],
    [kind |-> "ssl_error", status_code |-> 0],
    [kind |-> "connection_error", status_code |-> 0],
    [kind |-> "wait_for_error", status_code |-> 0] }

PipelineGeo == { "ok", "error" } \cup DOMAIN GeoFindings

InitPipeline == InitWith(1) /\ model_loaded

NextPipeline ==
  \/ /\ started < MaxRequests
     /\ \E r \in DOMAIN req, raw \in PipelineUrls, ie \in BOOLEAN,
           sk \in BOOLEAN, p \in PipelineScores :
           \E v \in DomainVerdictTable[Strip(raw)] :
              StartRequest(r, raw, ie, sk, p, v)
  \/ \E r \in DOMAIN req, o \in ExplanationOutcomes : ExplanationDone(r, o)
  \/ \E r \in DOMAIN req, o \in PipelineAvailability : AvailabilityDone(r, o)
  \/ \E r \in DOMAIN req, o \in PipelineGeo : GeoDone(r, o)

SpecPipeline == InitPipeline /\ [][NextPipeline]_vars

\* ------------------------------------------------------------------------
\* Properties
\* ------------------------------------------------------------------------

\* the last request was answered with a verdict
ReturnedVerdict == lastReturn.status = 200

\* the domain verdict recorded in a response
VerdictIn(response) == response.metadata.domain_analysis

StronglyTrusted(v) == v.is_whitelisted /\ v.boost > 2

Lookalike(v) == IsTyposquatReason(v) \/ IsBrandMimicryReason(v)

\* the availability block of a response reports the site offline or restricted
ReportedDown(a) ==
  a.present /\ (a.is_accessible = "False" \/ a.status_code \in {403, 405})

\* C1: a request for a syntactically valid URL, with the classifier loaded,
\* ends with a verdict (HTTP 200) whichever of the explanation, availability
\* and geo sub-steps timed out or failed; it never ends in an error response.
C1_ValidUrlAlwaysGetsVerdict ==
  (lastReturn.status # 0 /\ is_valid_url(lastReturn.url) /\ model_loaded)
    => ReturnedVerdict

\* C2: once the background task of a deferred explanation has stored the
\* explanation for a URL hash and the entry has not expired, a fetch with
\* that hash answers "found".
C2_ReadyExplanationIsFound ==
  lastFetch.ready => lastFetch.status = "found"

\* C3: a request answered from the prediction cache returns a result marked
\* from_cache = true.
C3_CacheHitMarkedFromCache ==
  (ReturnedVerdict /\ lastReturn.cache_hit)
    => lastReturn.response.metadata.from_cache

\* the TTL step 10 chose for a cached response
ChosenTTL(response) == ChooseTTL(response.prediction, response.confidence)

\* C4: a stored result is retained for the TTL chosen from its verdict: while
\* that TTL has not elapsed since the store, a get of its URL is a hit.
C4_EntryLivesForChosenTTL ==
  \A key \in DOMAIN prediction_cache :
     LET entry     == prediction_cache[key]
         stored_at == entry.expires - PREDICTION_DEFAULT_TTL
     IN  now < stored_at + ChosenTTL(entry.value)
           => CacheGet(prediction_cache, entry.value.url, now).hit

\* C5: a request for URL U in mode M (explanation and external-check toggles)
\* is answered from the cache only by a result created for (U, M).
C5_CacheHitOnlyForSameMode ==
  (ReturnedVerdict /\ lastReturn.cache_hit)
    => /\ lastReturn.response.url = lastReturn.url
       /\ lastReturn.response.metadata.include_explanation
            = lastReturn.include_explanation
       /\ lastReturn.response.metadata.has_availability
            = ~lastReturn.skip_external_checks

\* the classifier of the run behind the last return overrides the whitelist;
\* a cached response only shows its probabilities rounded to four decimals
ClassifierOverrides ==
  IF lastReturn.cache_hit
  THEN /\ lastReturn.response.phishing_probability >= 95000
       /\ lastReturn.response.legitimate_probability <= 5000
  ELSE /\ lastReturn.cls.phishing_prob > 95000
       /\ lastReturn.cls.legit_prob < 5000

\* C6: trust wins: for a strongly trusted domain, unless the classifier
\* reports phishing > 0.95 with legitimate < 0.05, the returned result is
\* legitimate with confidence >= 0.8, whatever the classifier, availability
\* and geo checks report.
C6_TrustWins ==
  (ReturnedVerdict /\ StronglyTrusted(VerdictIn(lastReturn.response))
     /\ ~ClassifierOverrides)
    => /\ lastReturn.response.prediction = "legitimate"
       /\ lastReturn.response.confidence >= 80000

\* a trusted domain was returned legitimate although the classifier said
\* phishing and the site was down
C6_Witness ==
  /\ ReturnedVerdict /\ ~lastReturn.cache_hit
  /\ StronglyTrusted(VerdictIn(lastReturn.response))
  /\ lastReturn.cls.pred_class = 0 /\ ~ClassifierOverrides
  /\ ReportedDown(lastReturn.response.availability)
  /\ lastReturn.response.prediction = "legitimate"

\* C7: lookalike override: for a domain that is not strongly trusted and
\* whose reason is typosquat or brand mimicry, every stage from the override
\* decision on keeps label phishing and confidence >= 0.95, and so does the
\* returned result.
C7_LookalikeOverride ==
  /\ (ReturnedVerdict /\ Lookalike(VerdictIn(lastReturn.response))
        /\ ~StronglyTrusted(VerdictIn(lastReturn.response)))
       => /\ lastReturn.response.prediction = "phishing"
          /\ lastReturn.response.confidence >= 95000
  /\ \A r \in DOMAIN req :
        (req[r].pc # "idle" /\ Lookalike(req[r].verdict)
           /\ ~StronglyTrusted(req[r].verdict))
          => /\ req[r].d.prediction = "phishing"
             /\ req[r].d.final_confidence >= 95000

\* a lookalike the classifier called legitimate was returned as phishing
\* after an availability check that found the site reachable
C7_Witness ==
  /\ ReturnedVerdict /\ ~lastReturn.cache_hit
  /\ Lookalike(VerdictIn(lastReturn.response))
  /\ lastReturn.cls.pred_class = 1
  /\ lastReturn.response.availability.is_accessible = "True"
  /\ lastReturn.response.prediction = "phishing"
  /\ lastReturn.response.confidence >= 95000

\* C8: no returned result is legitimate with risk very_low or low when the
\* domain is not trusted and the availability check reported the site
\* offline or restricted; the downgrade keeps the label.
C8_UnreachableNeverFullySafe ==
  /\ (ReturnedVerdict /\ ReportedDown(lastReturn.response.availability)
        /\ ~VerdictIn(lastReturn.response).is_whitelisted)
       => ~(/\ lastReturn.response.prediction = "legitimate"
            /\ lastReturn.response.risk_level \in {"very_low", "low"})
  /\ \A r \in DOMAIN req :
        (req[r].pc = "geo" /\ req[r].d.summary = "caution_offline")
          => /\ req[r].d.prediction = "legitimate"
             /\ req[r].after_override = "legitimate"

\* an offline site of an untrusted domain was returned legitimate, downgraded
\* to caution
C8_Witness ==
  /\ ReturnedVerdict
  /\ ReportedDown(lastReturn.response.availability)
  /\ ~VerdictIn(lastReturn.response).is_whitelisted
  /\ lastReturn.response.prediction = "legitimate"
  /\ lastReturn.response.risk_level = "caution"
  /\ lastReturn.response.summary = "caution_offline"
  /\ lastReturn.response.confidence = 70000

\* the availability block reports invalid TLS or an inaccessible site
ReportedInsecure(a) ==
  a.present /\ (a.ssl_valid = "False" \/ a.is_accessible = "False")

\* C9: secondary signal override: when the verdict after the override
\* decision is legitimate, IsHTTPS is 1, availability reports ssl_valid false
\* or is_accessible false and the domain is not trusted, the returned result
\* is phishing at risk medium; for a trusted domain the label is not flipped.
C9_SignalOverride ==
  (ReturnedVerdict /\ ~lastReturn.cache_hit
     /\ lastReturn.after_override = "legitimate"
     /\ IsHTTPS(lastReturn.url) = 1
     /\ ReportedInsecure(lastReturn.response.availability))
    => IF VerdictIn(lastReturn.response).is_whitelisted
       THEN lastReturn.response.prediction = "legitimate"
       ELSE /\ lastReturn.response.prediction = "phishing"
            /\ lastReturn.response.risk_level = "medium"

\* an untrusted HTTPS site that could not be reached was flipped to phishing
C9_Witness ==
  /\ ReturnedVerdict /\ ~lastReturn.cache_hit
  /\ lastReturn.after_override = "legitimate"
  /\ IsHTTPS(lastReturn.url) = 1
  /\ lastReturn.response.availability.is_accessible = "False"
  /\ lastReturn.response.availability.ssl_valid = "None"
  /\ ~VerdictIn(lastReturn.response).is_whitelisted
  /\ lastReturn.response.prediction = "phishing"
  /\ lastReturn.response.risk_level = "medium"

\* the host of the call under study, as the analyzer normalises it
DomHost == NormalizedNetloc(domUrl)

\* host is trusted by TLD, exact match or trusted suffix
TrustedHost(host) ==
  \/ \E i \in 1..Len(TRUSTED_TLDS) : EndsWith(host, TRUSTED_TLDS[i])
  \/ host \in HIGH_TRUST_DOMAINS
  \/ \E t \in HIGH_TRUST_DOMAINS : EndsWith(host, <<".">> \o t)

\* the brands whose token host contains without being one of the brand's
\* authorized domains or a subdomain of one
MimickedBrands(host) ==
  {BRAND_PATTERNS[i].brand : i \in
     {j \in 1..Len(BRAND_PATTERNS) :
        /\ Contains(host, BRAND_PATTERNS[j].brand)
        /\ \A a \in BRAND_PATTERNS[j].allowed_domains :
              host # a /\ ~EndsWith(host, <<".">> \o a)}}

\* C10: brand-mimicry precedence: a host that contains a brand token, is not
\* authorized for that brand and is not trusted gets the brand-mimicry
\* verdict with strong negative adjustment, also when it contains a phishing
\* keyword as a whole word.
C10_BrandMimicryPrecedence ==
  (domPc = "done" /\ MimickedBrands(DomHost) # {} /\ ~TrustedHost(DomHost))
    => /\ domVerdict.kind = "brand_mimicry_detected_"
       /\ domVerdict.arg \in MimickedBrands(DomHost)
       /\ domVerdict.boost <= -8
       /\ ~domVerdict.is_whitelisted

\* C11: host normalisation: analyze_domain_risk returns the same verdict for
\* a URL and for the same host written with an explicit port, a www. prefix,
\* a path or upper-case letters; an empty host or one without a dot yields
\* invalid_domain_format.
C11_HostNormalization ==
  /\ domPc = "both" => domVariantVerdict = domVerdict
  /\ (domPc # "call"
        /\ (PlainHost(domUrl) = << >> \/ ~Contains(PlainHost(domUrl), <<".">>)))
       => domVerdict.kind = "invalid_domain_format"

\* C13: determinism: two calls of analyze_domain_risk on the same URL return
\* the identical verdict, whatever the iteration order of the keyword and
\* trusted-domain sets in the processes the calls run in.
C13_SameUrlSameVerdict ==
  (domPc = "both" /\ domVariant = domUrl) => domVariantVerdict = domVerdict

\* the trusted domains one or two edits from host, of a length within two of
\* its own
NearTrusted(host) ==
  {t \in HIGH_TRUST_DOMAINS :
     /\ Abs(Len(host) - Len(t)) <= 2
     /\ levenshtein_distance(host, t) \in {1, 2}}

\* host matches none of the rules that come before the typosquat rule
NoEarlierRule(host) ==
  /\ Contains(host, <<".">>)
  /\ ~TrustedHost(host)
  /\ \A kw \in PHISHING_KEYWORDS : ~WholeWordMatch(host, kw)
  /\ MimickedBrands(host) = {}

ScoresWithIndicators(url, n) ==
  UNION {FallbackScores(url, fn) :
           fn \in {f \in FeatureNameLists :
                     IndicatorCount(aligned_features(extract_features(url), f)) >= n}}

\* C14: end to end, trusted URL: a request for https://www.google.com with
\* the classifier loaded returns label legitimate, a risk level of very_low
\* or low, and the domain reason exact_domain_match.
C14_GoogleEndToEnd ==
  (ReturnedVerdict /\ lastReturn.url = URL_GOOGLE) =>
    /\ lastReturn.response.prediction = "legitimate"
    /\ lastReturn.response.risk_level \in {"very_low", "low"}
    /\ VerdictIn(lastReturn.response).kind = "exact_domain_match"

\* C15: end to end, mimicry URL: a request for
\* http://accounts-google-verify.tk/login with the classifier loaded returns
\* label phishing and a risk level of high or critical, with a domain reason
\* that starts with brand_mimicry or with at least two fallback indicators
\* triggered.
C15_MimicryEndToEnd ==
  (ReturnedVerdict /\ lastReturn.url = URL_MIMICRY) =>
    /\ lastReturn.response.prediction = "phishing"
    /\ lastReturn.response.risk_level \in {"high", "critical"}
    /\ \/ IsBrandMimicryReason(VerdictIn(lastReturn.response))
       \/ lastReturn.cls.phishing_prob \in ScoresWithIndicators(URL_MIMICRY, 2)

\* the positions of the batch whose call raised
FailedItems == {i \in 1..Len(batch.urls) : batch.results[i].status # 200}

\* C16: batch isolation: a batch of N <= 100 URLs is answered with total = N
\* and successful + failed = N; each URL whose call fails has exactly one
\* errors entry, with its position (counted from 0) and its URL, and every
\* other URL has its own result in results.
C16_BatchIsolation ==
  /\ (batch.pc # "none" /\ Len(batch.urls) <= MAX_BATCH_SIZE)
       => batch.pc \in {"running", "done"}
  /\ batch.pc = "done" =>
       LET N == Len(batch.urls)
           R == batch.response
       IN  /\ R.total = N
           /\ R.successful + R.failed = N
           /\ R.failed = Cardinality(FailedItems)
           /\ Len(R.errors) = R.failed
           /\ Len(R.results) = R.successful
           /\ \A i \in FailedItems :
                 /\ Cardinality({k \in 1..Len(R.errors) :
                                   R.errors[k].index = i - 1}) = 1
                 /\ \A k \in 1..Len(R.errors) :
                       R.errors[k].index = i - 1 => R.errors[k].url = batch.urls[i]
           /\ \A i \in (1..N) \ FailedItems :
                 /\ batch.results[i].response.url = Strip(batch.urls[i])
                 /\ \E k \in 1..Len(R.results) :
                       R.results[k] = batch.results[i].response

\* a batch whose second URL failed and whose first did not was answered
C16_Witness ==
  /\ batch.pc = "done"
  /\ Len(batch.urls) = 2
  /\ FailedItems = {2}
  /\ batch.response.successful = 1
  /\ batch.response.failed = 1
  /\ batch.response.errors[1].index = 1
  /\ batch.response.errors[1].url = batch.urls[2]

\* C17: batch bounded parallelism: during a predict_batch call at most 20
\* predict_single_url calls of the batch are in flight at any instant, for
\* every batch size up to 100, and every URL of the batch is eventually
\* processed.
C17_BoundedParallelism ==
  /\ [](gate.in_flight <= BATCH_CONCURRENCY)
  /\ [](gate.pc = "running" =>
          gate.waiting + gate.in_flight + gate.finished = gate.size)
  /\ (gate.pc = "running") ~> (gate.pc = "done" /\ gate.finished = gate.size)

\* 100 URLs: the semaphore is exhausted, twenty calls are in flight and
\* tasks wait
C17_Witness ==
  /\ gate.pc = "running"
  /\ gate.size = MAX_BATCH_SIZE
  /\ gate.in_flight = BATCH_CONCURRENCY
  /\ gate.value = 0
  /\ gate.waiting > 0

\* the positions of the batch whose result came from the prediction cache
ServedFromCache ==
  {i \in 1..Len(batch.urls) :
     batch.results[i].status = 200 /\ batch.results[i].cache_hit}

\* the positions of the batch whose result the pipeline computed
ComputedByPipeline ==
  {i \in 1..Len(batch.urls) :
     batch.results[i].status = 200 /\ ~batch.results[i].cache_hit}

\* C18: batch cache-hit count: the cache_hits count predict_batch reports is
\* the number of URLs of the batch whose result was served from the
\* prediction cache, and cache_misses is the number of successful URLs whose
\* result the pipeline computed.
C18_CacheHitCount ==
  batch.pc = "done" =>
    /\ batch.response.cache_hits = Cardinality(ServedFromCache)
    /\ batch.response.cache_misses = Cardinality(ComputedByPipeline)

\* C19: batch cap: a batch of more than 100 URLs is rejected before any
\* work starts: no predict_single_url call is started for any of its URLs,
\* the classifier is not invoked, and the prediction and explanation caches
\* are left as they were.
C19_BatchCap ==
  [][Len(batch'.urls) > MAX_BATCH_SIZE =>
       /\ batch'.pc = "rejected"
       /\ batch'.results = << >>
       /\ UNCHANGED << req, started, prediction_cache, explanation_cache,
                       background, lastReturn >>]_vars

\* a batch of 101 URLs was rejected while the prediction cache held an entry
C19_Witness ==
  /\ batch.pc = "rejected"
  /\ Len(batch.urls) = MAX_BATCH_SIZE + 1
  /\ prediction_cache # EmptyCache
  /\ \A r \in DOMAIN req : req[r].pc = "idle"

\* C20: error terminals have no side effects: a request that ends in
\* Rejected (status 400, the validator refuses the URL) or Unavailable
\* (status 503, the classifier is not loaded) has no classifier result,
\* writes no cache and queues no background explanation; a URL the validator
\* refuses is Rejected whether or not the classifier is loaded, and no such
\* request, nor any request without a loaded classifier, goes on to the
\* classifier.
C20_ErrorTerminalsNoEffects ==
  [][started' = started + 1 =>
       /\ (req' = req /\ lastReturn'.status \in {400, 503}) =>
            /\ UNCHANGED << prediction_cache, explanation_cache, background >>
            /\ lastReturn'.cls = IdleRequest.cls
            /\ lastReturn'.after_override = "none"
            /\ lastReturn'.response = NoResponse
            /\ (lastReturn'.status = 400) <=> ~is_valid_url(lastReturn'.url)
            /\ (lastReturn'.status = 503) => ~model_loaded
       /\ (req' = req /\ ~is_valid_url(lastReturn'.url)) => lastReturn'.status = 400
       /\ \A r \in DOMAIN req :
            req'[r] # req[r] => (is_valid_url(req'[r].url) /\ model_loaded)]_vars

\* a URL with a script marker was rejected while the classifier was not
\* loaded
C20_Witness ==
  /\ lastReturn.status = 400
  /\ lastReturn.url = URL_SCRIPT
  /\ ~is_valid_url(lastReturn.url)
  /\ ~model_loaded
  /\ prediction_cache = EmptyCache
  /\ background = {}

\* the call of calculate_threat_index has returned
ThreatReturned == threat.pc = "returned"

\* the reference case: phishing with confidence 1.0 and no other risk
ReferenceCase ==
  /\ ThreatReturned
  /\ threat.prediction = "phishing"
  /\ threat.ml_confidence = ONE
  /\ threat.shap_risk_weight = 0
  /\ threat.availability_risk = 0
  /\ threat.geo_risk = 0
  /\ threat.proxy_risk = 0

\* C21 as stated: for prediction = phishing with confidence 1.0 and every
\* other risk input 0, calculate_threat_index returns index 40 and level LOW.
C21_ReferenceCaseLow ==
  ReferenceCase =>
    /\ threat.threat_data.threat_index = 40
    /\ threat.threat_data.threat_level = "LOW"

\* C21 amended: for prediction = phishing with confidence 1.0 and every other
\* risk input 0, calculate_threat_index returns index 40 and level MEDIUM,
\* the level of every index from 40 to 59.
C21_ReferenceCaseMedium ==
  ReferenceCase =>
    /\ threat.threat_data.threat_index = 40
    /\ threat.threat_data.threat_level = "MEDIUM"

C21_Witness == ReferenceCase /\ threat.threat_data.threat_index = 40

\* a risk input brought into [0, 1]
InUnitRange(value) == IF value < 0 THEN 0 ELSE IF value > ONE THEN ONE ELSE value

\* the weighted sum of the reference formula for the call in threat, in
\* units of 1/ONE
ReferenceSum ==
  (IF threat.prediction = "phishing"
   THEN 40 * InUnitRange(threat.ml_confidence) ELSE 0)
    + 25 * InUnitRange(threat.shap_risk_weight)
    + 15 * InUnitRange(threat.availability_risk)
    + 10 * InUnitRange(threat.geo_risk)
    + 10 * InUnitRange(threat.proxy_risk)

\* the level the reference assigns to an index
ReferenceLevel(index) ==
  CASE index >= 80 -> "CRITICAL"
    [] index >= 60 /\ index < 80 -> "HIGH"
    [] index >= 40 /\ index < 60 -> "MEDIUM"
    [] index >= 20 /\ index < 40 -> "LOW"
    [] OTHER -> "MINIMAL"

Predicted == ml.pc \in {"predicted", "renormalized"} /\ ml.out.raised = "none"

\* the health probes (zeros, ones, random) of the loaded classifier answer
\* within 0.001 of each other
ProbesWithinEpsilon ==
  /\ ml.classifier.kind # "raises"
  /\ \A a \in {"zeros", "ones", "random"}, b \in {"zeros", "ones", "random"} :
       Abs(ProbeProba(ml.classifier.kind, a) - ProbeProba(ml.classifier.kind, b)) < 100

\* the probability the loaded classifier gives the label phishing (class 0)
\* on the row of url
TrainedPhishingProba(url) ==
  LET raw == RowProba(ml.classifier.kind, url)
  IN  IF ml.classifier.classes = << 1, 0 >> THEN ONE - raw ELSE raw

\* C23: a predict call is answered by the rule-based fallback only when the
\* classifier is degenerate or its inference fails; a loaded classifier
\* that is not degenerate and whose inference succeeds answers every frame,
\* of one row or of many, with its own probabilities.
C23_BackendSelection ==
  Predicted =>
    /\ ml.out.backend \in {"model", "rule_based_fallback"}
    /\ ml.out.backend = "rule_based_fallback" =>
         ml.classifier.kind = "raises" \/ ProbesWithinEpsilon
    /\ (ml.classifier.kind # "raises" /\ ~ProbesWithinEpsilon) =>
         /\ ml.out.backend = "model"
         /\ \A i \in DOMAIN ml.frame :
              ml.out.probabilities[i][1] = TrainedPhishingProba(ml.frame[i])

\* C24: when the health probes' phishing probabilities are all within
\* epsilon of each other, the backend reports itself degenerate and every
\* predict call, of one row or of many, returns the fallback's verdict and
\* never the model's own output.
C24_DegeneracyRouting ==
  (Predicted /\ ProbesWithinEpsilon) =>
    /\ model_is_broken(ml)
    /\ ml.out.backend = "rule_based_fallback"

\* the files of a mode are both in place and readable
FilesOk(mode) ==
  /\ ml.files[MODEL_MAP[mode].model_filename] = "ok"
  /\ ml.files[MODEL_MAP[mode].feature_filename] = "ok"

\* load_model was called with a mode other than compatible and has returned
PrimaryLoadReturned ==
  ml.pc = "loaded" /\ ml.mode \in DOMAIN MODEL_MAP \ { "compatible" }

\* C25: any load failure of the primary model (a missing model file, a
\* missing feature-name file, an error while reading either) triggers a
\* load of the compatible model; is_loaded() is false only if that load
\* fails too, and then an uncached request for a valid URL is answered
\* ServiceUnavailable (503).
C25_LoadFailureFallsBack ==
  /\ (PrimaryLoadReturned /\ ~FilesOk(ml.mode)) =>
       /\ ml.loads = << ml.mode, "compatible" >>
       /\ ~is_loaded(ml) => ~FilesOk("compatible")
  /\ (ml.pc # "none" /\ lastReturn.status # 0 /\ ~is_loaded(ml)) =>
       lastReturn.status = 503

\* C26: for both label orders the normalized output has the phishing
\* probability in column 0 and the legitimate probability in column 1, and
\* applying _normalize_probabilities to an already normalized output
\* returns it unchanged.
C26_NormalizationIdempotent ==
  /\ (Predicted /\ ml.out.backend = "model"
        /\ ml.classifier.classes \in {<< 0, 1 >>, << 1, 0 >>}) =>
       \A i \in DOMAIN ml.frame :
         /\ ml.out.probabilities[i][1] = TrainedPhishingProba(ml.frame[i])
         /\ ml.out.probabilities[i][2] = ONE - TrainedPhishingProba(ml.frame[i])
  /\ ml.pc = "renormalized" => ml.renormalized = ml.out.probabilities

\* the last request was answered by the pipeline with the classifier's own
\* label: the domain is neither strongly trusted nor a look-alike, its
\* adjustment is 0, and neither the availability adjustment nor the signal
\* override changed the decision
ClassifierDecides ==
  /\ ReturnedVerdict
  /\ ~lastReturn.cache_hit
  /\ ~StronglyTrusted(VerdictIn(lastReturn.response))
  /\ ~Lookalike(VerdictIn(lastReturn.response))
  /\ lastReturn.response.metadata.domain_boost = 0
  /\ lastReturn.response.summary
       \notin {"caution_offline", "suspicious_https", "critical_lookalike"}

C28_DeferredPayloadMatchesResult ==
  \A t \in background :
    (ReturnedVerdict /\ ~lastReturn.cache_hit /\ t.url = lastReturn.url) =>
      /\ t.prediction = lastReturn.response.prediction
      /\ Round4(t.confidence) = lastReturn.response.confidence

\* C29: the explanation-cache entries of the two writers do not collide:
\* over any sequence of fast predictions, completed background explanation
\* tasks and POST /predict/explain calls for the same URL, what
\* /predict/explain returns from the explanation cache is an
\* ExplanationResponse stored by an earlier /predict/explain, never the
\* payload of the background task, and the call does not fail on it.
C29_ExplainReturnsOwnEntries ==
  (explain.pc = "done" /\ explain.from_cache) =>
    /\ explain.returned = "ExplanationResponse"
    /\ explain.status = 200

====
